---- MODULE Spec2Model ----
(***************************************************************************)
(* optcoin-bot: the bounded-concurrency account scheduler                   *)
(* (orchestrator.py), the per-account runners (actions.py), the browser     *)
(* context factory (playwright_adapter.py), the step workflow               *)
(* (core/workflow.py) and the retry decorator (utils/retry.py).             *)
(*                                                                          *)
(* One asyncio task per account; an action of the model is the code that    *)
(* runs between two awaits of a task, so the interleavings of the model     *)
(* are those of the event loop.                                             *)
(***************************************************************************)
EXTENDS Integers, Sequences, FiniteSets, TLC

\* ------------------------------------------------------------------ bounds
\* Largest account list handed to orchestrate_accounts.
MaxAccounts == 2
\* Largest max_attempts given to async_retry in the decorator's own model.
MaxAttempts == 3
\* Most workflows that are mid-flight on the session store at the same time.
MaxWorkflows == 2
\* Longest alert message handed to the classifier, in words.
MaxMsgLen == 4
\* Most elements with role="alert" on the page.
MaxAlerts == 2

\* ------------------------------------------------------- program constants
\* @async_retry(max_attempts=3) on the other steps of core/workflow.py.
StepMaxAttempts == 3
\* @async_retry(max_attempts=3) on _step_login.
LoginMaxAttempts == 3
\* @async_retry(max_attempts=3) on _step_enter_order_and_recognize.
RecognizeMaxAttempts == 3
\* Upper clamp of the concurrency limit.
LimitCap == 10

VARIABLES
    trigger,          \* kwargs of the call: runner, dry_run, performant, telethon
    accounts,         \* the account list (sequence of AccountCredentials)
    max_concurrency,  \* the configured value handed to orchestrate_accounts
    mainPc,           \* position of orchestrate_accounts itself
    semaphore,        \* asyncio.Semaphore(limit): its free slots
    pc,               \* pc[i]: position of worker(accounts[i])
    context,          \* context[i]: the browser context made for task i
    held,             \* held[i]: worker's local `context` is not None
    page,             \* page[i]: the page opened for task i
    flight,           \* flight[i]: the return value or exception propagating
    raisedAt,         \* raisedAt[i]: the calls of task i that raised (history)
    taskResult,       \* taskResult[i]: what the task ended with
    results,          \* what gather handed back
    wInput, wPc, wReport, wAttempts, wCalls,          \* one workflow, step by step
    rArgs, rPc, rAttempt, rHistory, rSleeps, rResult, \* async_retry on its own
    sessionFile,      \* sessionFile[path]: the stored session of an account
    lConf,            \* lConf[w]: trigger, account and flags of workflow w
    lPc,              \* lPc[w]: position of workflow w around its login step
    lExisted,         \* lExisted[w]: the file existed at the step's start
    lLanded,          \* lLanded[w]: the URL the validation navigation landed on
    lCalls,           \* lCalls[w]: the calls workflow w has made, in order
    lResult,          \* lResult[w]: what the login step of w returned
    aMsg,             \* the alert message captured after the recognize click
    aPc,              \* position of the recognize step after the capture
    aResult,          \* the StepResult the recognize step returned
    fTrigger,         \* the front end, its accounts file and its settings
    fPc,              \* position of the front end's handling of the trigger
    fAccounts,        \* what get_accounts_to_process returned
    fBrowser,         \* the browser the front end launched
    fScheduler,       \* the front end's call of orchestrate_accounts
    fTask,            \* fTask[i]: position of the task of account i
    fOutcome,         \* fOutcome[i]: how the task of account i ended
    fFinished,        \* the tasks that have ended, in the order they ended
    fResults,         \* what orchestrate_accounts returned to the front end
    fPrompt,          \* the confirmation prompt of submit-order and its answer
    fContexts,        \* number of automation contexts created
    fChannel,         \* what was written to the reply channel, in order
    hResponse,        \* the last answer of GET /health and when it was given
    cStep,            \* the step that captures: recognize or confirm
    cEnv,             \* what the page shows: dialog, role=alert elements, error text
    cPc,              \* position of the step around _capture_alert_message
    cCalls,           \* the calls the step has made on the page, in order
    cAlert,           \* what _capture_alert_message returned
    cResult           \* the StepResult the step returned

vars == <<trigger, accounts, max_concurrency, mainPc, semaphore, pc, context,
          held, page, flight, raisedAt, taskResult, results,
          wInput, wPc, wReport, wAttempts, wCalls,
          rArgs, rPc, rAttempt, rHistory, rSleeps, rResult,
          sessionFile, lConf, lPc, lExisted, lLanded, lCalls, lResult,
          aMsg, aPc, aResult,
          fTrigger, fPc, fAccounts, fBrowser, fScheduler, fTask, fOutcome,
          fFinished, fResults, fPrompt, fContexts, fChannel, hResponse,
          cStep, cEnv, cPc, cCalls, cAlert, cResult>>

schedVars == <<trigger, accounts, max_concurrency, mainPc, semaphore, pc,
               context, held, page, flight, raisedAt, taskResult, results>>

wfVars == <<wInput, wPc, wReport, wAttempts, wCalls>>

retryVars == <<rArgs, rPc, rAttempt, rHistory, rSleeps, rResult>>

sessVars == <<sessionFile, lConf, lPc, lExisted, lLanded, lCalls, lResult>>

alertVars == <<aMsg, aPc, aResult>>

frontVars == <<fTrigger, fPc, fAccounts, fBrowser, fScheduler, fTask,
               fOutcome, fFinished, fResults, fPrompt, fContexts, fChannel>>

\* What the scheduler, the workflow and the retry wrapper leave alone.
healthVars == <<hResponse>>

capVars == <<cStep, cEnv, cPc, cCalls, cAlert, cResult>>

extVars == <<sessVars, alertVars, frontVars, healthVars, capVars>>

coreVars == <<schedVars, wfVars, retryVars>>

notSession == <<coreVars, alertVars, frontVars, healthVars, capVars>>
notAlert == <<coreVars, sessVars, frontVars, healthVars, capVars>>
notFront == <<coreVars, sessVars, alertVars, healthVars, capVars>>
notHealth == <<coreVars, sessVars, alertVars, frontVars, capVars>>
notCapture == <<coreVars, sessVars, alertVars, frontVars, healthVars>>

SessionOff ==
    /\ sessionFile = <<>> /\ lConf = <<>> /\ lPc = <<>> /\ lExisted = <<>>
    /\ lLanded = <<>> /\ lCalls = <<>> /\ lResult = <<>>

AlertOff == aMsg = <<>> /\ aPc = "off" /\ aResult = [step |-> "none"]

FrontOff ==
    /\ fTrigger = [frontend |-> "none"] /\ fPc = "off" /\ fAccounts = <<>>
    /\ fBrowser = "none" /\ fScheduler = "not_called" /\ fTask = <<>>
    /\ fOutcome = <<>> /\ fFinished = <<>> /\ fResults = <<>>
    /\ fPrompt = "not_asked" /\ fContexts = 0 /\ fChannel = <<>>

HealthOff == hResponse = [status |-> "none"]

CaptureOff ==
    /\ cStep = "none" /\ cEnv = [dialog |-> "none"] /\ cPc = "off"
    /\ cCalls = <<>> /\ cAlert = [captured |-> FALSE]
    /\ cResult = [step |-> "none"]

OthersOff == SessionOff /\ AlertOff /\ FrontOff /\ HealthOff /\ CaptureOff

Min(a, b) == IF a < b THEN a ELSE b
Max(a, b) == IF a > b THEN a ELSE b

\* ------------------------------------------------------------------ inputs
\* The keyword arguments each front end passes to orchestrate_accounts.
OrderNumbers == {"1001", "2002"}

Triggers ==
    { [frontend |-> "cli_login", runner |-> "login", order_number |-> "",
       dry_run |-> FALSE, performant |-> p, telethon |-> FALSE] :
         p \in BOOLEAN }
    \cup
    { [frontend |-> "cli_submit", runner |-> "submit", order_number |-> "1001",
       dry_run |-> d, performant |-> p, telethon |-> FALSE] :
         d \in BOOLEAN, p \in BOOLEAN }
    \cup
    { [frontend |-> "webhook", runner |-> "submit", order_number |-> "1001",
       dry_run |-> FALSE, performant |-> TRUE, telethon |-> FALSE],
      [frontend |-> "telegram", runner |-> "submit", order_number |-> "1001",
       dry_run |-> FALSE, performant |-> TRUE, telethon |-> TRUE] }

\* A value handed to orchestrate_accounts as max_concurrency: an integer,
\* or None.
Configured(n) == [given |-> TRUE, value |-> n]
NotConfigured == [given |-> FALSE]

\* Negative, zero, in range, over the cap, missing.
ConcurrencyValues ==
    { Configured(n) : n \in {-1, 0, 1, 2, LimitCap + 1} } \cup {NotConfigured}

Account(i) == [account_name |-> <<"account", i>>, username |-> <<"user", i>>]

AccountLists == { [i \in 1..k |-> Account(i)] : k \in 1..MaxAccounts }

Tasks == DOMAIN accounts

StepNames == <<"login", "navigate_to_delivery", "click_invited_me",
               "enter_order_and_recognize", "confirm_order">>

NoFlight == [kind |-> "none"]
NoReport == [built |-> FALSE]
NoInput == [runner |-> "none"]
Pending == [kind |-> "pending"]

\* ------------------------------------------------------ orchestrator.py
\* `max_concurrency or 1`: None and 0 are falsy and count as 1.
OrOne(L) == IF ~L.given THEN 1 ELSE IF L.value = 0 THEN 1 ELSE L.value

\* limit = max(1, min(int(max_concurrency or 1), 10))
LimitWithoutFloor(L) == Min(OrOne(L), LimitCap)
Limit(L) == Max(1, Min(OrOne(L), LimitCap))

\* An exception object; str(e) is its message.
Exc(msg) == [type |-> "Exception", msg |-> msg]
StrOf(e) == e.msg

Returning(v) == [kind |-> "return", value |-> v]
Raising(e) == [kind |-> "raise", exc |-> e]

\* What a finished task holds: its return value or its exception.
OutcomeOf(f) ==
    IF f.kind = "return" THEN [kind |-> "report", value |-> f.value]
    ELSE [kind |-> "exception", exc |-> f.exc]

\* asyncio.gather(*tasks, return_exceptions=True) completes when every task
\* has, and returns each task's result or exception in the order of the
\* tasks; it raises none of them.
GatherReadyFirstException ==
    \/ \A i \in Tasks : pc[i] = "done"
    \/ \E i \in Tasks : pc[i] = "done" /\ taskResult[i].kind = "exception"
GatherReady == \A i \in Tasks : pc[i] = "done"

GatherOutcomeDropsExceptions ==
    Returning(SelectSeq([i \in Tasks |-> taskResult[i]],
                        LAMBDA r : r.kind = "report"))
GatherOutcome == Returning([i \in Tasks |-> taskResult[i]])

\* Lines 21-53: the limit, the semaphore, one task per account.  No await
\* lies between them, so no task runs before the loop has created them all.
Orchestrate ==
    /\ mainPc = "idle"
    /\ semaphore' = Limit(max_concurrency)
    /\ pc' = [i \in Tasks |-> "queued"]
    /\ mainPc' = "gather"
    /\ UNCHANGED <<trigger, accounts, max_concurrency, context, held, page,
                   flight, raisedAt, taskResult, results, wfVars, retryVars>>
    /\ UNCHANGED extVars

\* Lines 55-57: results = await asyncio.gather(...); return results.
Gather ==
    /\ mainPc = "gather"
    /\ GatherReady
    /\ LET g == GatherOutcome IN
       IF g.kind = "return"
       THEN results' = g.value /\ mainPc' = "returned"
       ELSE UNCHANGED results /\ mainPc' = "raised"
    /\ UNCHANGED <<trigger, accounts, max_concurrency, semaphore, pc, context,
                   held, page, flight, raisedAt, taskResult, wfVars, retryVars>>
    /\ UNCHANGED extVars

\* Line 28: `async with semaphore` takes a free slot.
Acquire(i) ==
    /\ mainPc = "gather"
    /\ pc[i] = "queued"
    /\ semaphore > 0
    /\ semaphore' = semaphore - 1
    /\ pc' = [pc EXCEPT ![i] = "new_context"]
    /\ UNCHANGED <<trigger, accounts, max_concurrency, mainPc, context, held,
                   page, flight, raisedAt, taskResult, results, wfVars,
                   retryVars>>
    /\ UNCHANGED extVars

\* ------------------------------------------------ playwright_adapter.py
\* PlaywrightAdapter.new_context.  browser.new_context may raise (nothing is
\* created).  set_default_timeout and add_init_script are guarded by
\* try/except; context.route, called only when performant, is not: when it
\* raises, the context exists but is never handed to the caller.
NewContextEnvs(performant) ==
    {"ok", "browser_raises"} \cup (IF performant THEN {"route_raises"} ELSE {})

NewContextResult(env) ==
    CASE env = "ok" ->
           [created |-> TRUE, flight |-> Returning("context")]
      [] env = "browser_raises" ->
           [created |-> FALSE, flight |-> Raising(Exc("browser.new_context"))]
      [] env = "route_raises" ->
           [created |-> TRUE, flight |-> Raising(Exc("context.route"))]

\* Lines 30-43 of orchestrator.py: context = await adapter.new_context(...).
\* On an exception the local `context` stays None and control is in the
\* finally of line 47.
NewContext(i) ==
    /\ pc[i] = "new_context"
    /\ \E env \in NewContextEnvs(trigger.performant) :
         LET r == NewContextResult(env) IN
         /\ context' = [context EXCEPT ![i] = IF r.created THEN "open" ELSE @]
         /\ held' = [held EXCEPT ![i] = (r.flight.kind = "return")]
         /\ IF r.flight.kind = "return"
            THEN /\ pc' = [pc EXCEPT ![i] = "new_page"]
                 /\ UNCHANGED <<flight, raisedAt>>
            ELSE /\ pc' = [pc EXCEPT ![i] = "close_context"]
                 /\ flight' = [flight EXCEPT ![i] = r.flight]
                 /\ raisedAt' = [raisedAt EXCEPT ![i] = @ \cup {"new_context"}]
    /\ UNCHANGED <<trigger, accounts, max_concurrency, mainPc, semaphore, page,
                   taskResult, results, wfVars, retryVars>>
    /\ UNCHANGED extVars

\* -------------------------------------------------------- core/workflow.py
\* What the browser does to one attempt of a step.
StepEnvs == {"ok", "timeout", "error"}

\* The body of a _step_* method.  Everything after the dry_run test runs
\* inside try/except Exception, so a timeout or any other error of the
\* browser comes back as a StepResult with success False: the body returns,
\* it does not raise.
StepBody(name, order_number, dry_run, env) ==
    LET base == [step |-> name, success |-> TRUE]
        withOrder(r) == IF name = "enter_order_and_recognize"
                        THEN [k \in DOMAIN r \cup {"order_number"} |->
                                IF k = "order_number" THEN order_number ELSE r[k]]
                        ELSE r
    IN
    IF dry_run THEN Returning(withOrder([step |-> name, success |-> TRUE,
                                         simulated |-> TRUE]))
    ELSE IF env = "ok" THEN Returning(withOrder(base))
    ELSE Returning([step |-> name, success |-> FALSE, error |-> env])

\* ---------------------------------------------------------- utils/retry.py
\* One turn of the loop of async_retry's wrapper, for the outcome of the
\* attempt-th invocation: a return is returned at once; a caught exception
\* is followed by a sleep when attempts remain and re-raised otherwise; an
\* exception outside catch_exceptions is not handled.
\* issubclass(type, catch_exceptions) for the exception types of the model:
\* TimeoutError is an Exception; CancelledError is a BaseException only.
IsCaught(type, catch_exceptions) ==
    \/ type = catch_exceptions
    \/ catch_exceptions = "Exception" /\ type = "TimeoutError"

RetryTurnSleepAfterLast(outcome, attempt, max_attempts, catch_exceptions) ==
    CASE outcome.kind = "return" -> "return"
      [] outcome.kind = "raise"
           /\ IsCaught(outcome.exc.type, catch_exceptions) ->
           IF attempt <= max_attempts THEN "sleep" ELSE "raise"
      [] OTHER -> "raise"
RetryTurn(outcome, attempt, max_attempts, catch_exceptions) ==
    CASE outcome.kind = "return" -> "return"
      [] outcome.kind = "raise"
           /\ IsCaught(outcome.exc.type, catch_exceptions) ->
           IF attempt < max_attempts THEN "sleep" ELSE "raise"
      [] OTHER -> "raise"

\* -------------------------------------------------------- core/workflow.py
\* The steps execute_submit_order / execute_login run, in order.
StepsToExecuteDeliveryFirst(runner) ==
    IF runner = "submit"
    THEN <<"navigate_to_delivery", "login", "click_invited_me",
           "enter_order_and_recognize", "confirm_order">>
    ELSE <<"login">>
StepsToExecute(runner) == IF runner = "submit" THEN StepNames ELSE <<"login">>

\* The report dict as created at the top of execute_submit_order (lines
\* 103-110) and of execute_login (lines 41-47); account_name is the
\* workflow's username.
NewReport(runner, account, order_number, dry_run) ==
    IF runner = "submit"
    THEN [account_name |-> account.username, order_number |-> order_number,
          dry_run |-> dry_run, steps |-> <<>>, success |-> FALSE]
    ELSE [account_name |-> account.username, dry_run |-> dry_run,
          steps |-> <<>>, success |-> FALSE]

\* raise Exception(f"L'étape '{step}' a échoué : {error}") and str() of it.
StepFailed(result) == Exc(<<"step failed", result.step, result.error>>)

WithErrorUnrecorded(r, e) == r
WithError(r, e) == [k \in DOMAIN r \cup {"error"} |->
                      IF k = "error" THEN StrOf(e) ELSE r[k]]

\* One iteration of `for step_func in steps_to_execute` (lines 133-137; in
\* execute_login lines 56-59): the step's result is appended; a failed one
\* raises, which the except of line 142 turns into report["error"]; after the
\* last step report["success"] is set.
AfterStepKeepGoing(r, result, steps) ==
    LET r1 == [r EXCEPT !.steps = Append(@, result)] IN
    IF Len(r1.steps) = Len(steps)
    THEN [next |-> "wf_end", report |-> [r1 EXCEPT !.success = TRUE]]
    ELSE [next |-> "step", report |-> r1]
AfterStep(r, result, steps) ==
    LET r1 == [r EXCEPT !.steps = Append(@, result)] IN
    IF ~result.success
    THEN [next |-> "wf_end", report |-> WithError(r1, StepFailed(result))]
    ELSE IF Len(r1.steps) = Len(steps)
    THEN [next |-> "wf_end", report |-> [r1 EXCEPT !.success = TRUE]]
    ELSE [next |-> "step", report |-> r1]


\* max_attempts of the decorator of each step.
MaxAttemptsOf(name) ==
    CASE name = "login" -> LoginMaxAttempts
      [] name = "enter_order_and_recognize" -> RecognizeMaxAttempts
      [] OTHER -> StepMaxAttempts

\* A decorated step as the step loop sees it: the wrapper invokes the body
\* until a turn returns or raises.  `env` is the browser's condition, the
\* same for every invocation.  Gives the outcome and the invocations made.
RECURSIVE Decorated(_, _, _, _, _)
Decorated(name, order_number, dry_run, env, attempt) ==
    LET o == StepBody(name, order_number, dry_run, env)
        turn == RetryTurn(o, attempt, MaxAttemptsOf(name), "Exception")
    IN IF turn = "sleep"
       THEN Decorated(name, order_number, dry_run, env, attempt + 1)
       ELSE [outcome |-> o, invocations |-> attempt]

\* The step loop to its end, envs[k] the browser's condition at step k.
RECURSIVE RunSteps(_, _, _, _, _)
RunSteps(r, steps, order_number, dry_run, envs) ==
    LET k == Len(r.steps) + 1
        d == Decorated(steps[k], order_number, dry_run, envs[k], 1)
    IN IF d.outcome.kind = "raise" THEN WithError(r, d.outcome.exc)
       ELSE LET a == AfterStep(r, d.outcome.value, steps) IN
            IF a.next = "wf_end" THEN a.report
            ELSE RunSteps(a.report, steps, order_number, dry_run, envs)

\* execute_submit_order (lines 102-143) and execute_login (lines 40-66), the
\* browser context and the page given by the caller: the report returned.
\* A dry-run order submission runs no step; execute_login hands dry_run to
\* its step.
ExecuteWorkflow(runner, account, order_number, dry_run, envs) ==
    LET r == NewReport(runner, account, order_number, dry_run) IN
    IF runner = "submit" /\ dry_run THEN [r EXCEPT !.success = TRUE]
    ELSE RunSteps(r, StepsToExecute(runner), order_number, dry_run, envs)

\* The browser's condition over one account's run: good at every step, or
\* timing out at one of them.
WorkflowEnvs ==
    { [k \in 1..Len(StepNames) |-> IF k = bad THEN "timeout" ELSE "ok"] :
        bad \in 0..Len(StepNames) }

\* ------------------------------------------------------------- actions.py
\* page = await context.new_page() (line 73 / line 40).  In
\* run_submit_order_for_account an exception goes to the except of line 88;
\* run_login_for_account has only a finally.
NewPage(i) ==
    /\ pc[i] = "new_page"
    /\ \E env \in {"ok", "raises"} :
         IF env = "ok"
         THEN /\ page' = [page EXCEPT ![i] = "open"]
              /\ pc' = [pc EXCEPT ![i] = "workflow"]
              /\ UNCHANGED <<flight, raisedAt>>
         ELSE /\ flight' = [flight EXCEPT ![i] = Raising(Exc("context.new_page"))]
              /\ raisedAt' = [raisedAt EXCEPT ![i] = @ \cup {"new_page"}]
              /\ pc' = [pc EXCEPT ![i] = IF trigger.runner = "submit"
                                         THEN "handler" ELSE "close_page"]
              /\ UNCHANGED page
    /\ UNCHANGED <<trigger, accounts, max_concurrency, mainPc, semaphore,
                   context, held, taskResult, results, wfVars, retryVars>>
    /\ UNCHANGED extVars

\* Lines 74-87 (lines 41-48 in run_login_for_account): the workflow is built
\* and awaited.  Back in run_submit_order_for_account a failed report is
\* announced on the chat when a Telethon client was given; otherwise, and in
\* run_login_for_account, the report is returned as it is.
RunWorkflow(i) ==
    /\ pc[i] = "workflow"
    /\ \E envs \in WorkflowEnvs :
         LET r == ExecuteWorkflow(trigger.runner, accounts[i],
                                  trigger.order_number, trigger.dry_run, envs)
         IN
         /\ flight' = [flight EXCEPT ![i] = Returning(r)]
         /\ pc' = [pc EXCEPT ![i] =
                     IF trigger.runner = "submit" /\ ~r.success
                                                  /\ trigger.telethon
                     THEN "notify" ELSE "close_page"]
    /\ UNCHANGED <<trigger, accounts, max_concurrency, mainPc, semaphore,
                   context, held, page, raisedAt, taskResult, results, wfVars,
                   retryVars>>
    /\ UNCHANGED extVars

\* Line 86: await telethon_client.send_message(...), inside the try.
Notify(i) ==
    /\ pc[i] = "notify"
    /\ \E env \in {"ok", "raises"} :
         IF env = "ok"
         THEN /\ pc' = [pc EXCEPT ![i] = "close_page"]
              /\ UNCHANGED <<flight, raisedAt>>
         ELSE /\ flight' = [flight EXCEPT ![i] = Raising(Exc("send_message"))]
              /\ raisedAt' = [raisedAt EXCEPT ![i] = @ \cup {"notify"}]
              /\ pc' = [pc EXCEPT ![i] = "handler"]
    /\ UNCHANGED <<trigger, accounts, max_concurrency, mainPc, semaphore,
                   context, held, page, taskResult, results, wfVars, retryVars>>
    /\ UNCHANGED extVars

\* The dict the except of run_submit_order_for_account returns (lines 92-96).
CriticalReportLosesText(account, e) ==
    [account_name |-> account.account_name, success |-> FALSE,
     error |-> "Erreur inconnue"]
CriticalReport(account, e) ==
    [account_name |-> account.account_name, success |-> FALSE,
     error |-> StrOf(e)]

\* Lines 88-96: except Exception as e.  With a Telethon client the error is
\* announced first, and that send may raise in its turn.
Handler(i) ==
    /\ pc[i] = "handler"
    /\ \E env \in IF trigger.telethon THEN {"ok", "raises"} ELSE {"ok"} :
         IF env = "ok"
         THEN /\ flight' = [flight EXCEPT ![i] =
                              Returning(CriticalReport(accounts[i], @.exc))]
              /\ UNCHANGED raisedAt
         ELSE /\ flight' = [flight EXCEPT ![i] = Raising(Exc("send_message"))]
              /\ raisedAt' = [raisedAt EXCEPT ![i] = @ \cup {"handler"}]
    /\ pc' = [pc EXCEPT ![i] = "close_page"]
    /\ UNCHANGED <<trigger, accounts, max_concurrency, mainPc, semaphore,
                   context, held, page, taskResult, results, wfVars, retryVars>>
    /\ UNCHANGED extVars

\* The finally of lines 97-99 (lines 49-51 in run_login_for_account):
\* page.close() when a page was opened.  A close() that raises replaces the
\* value or exception in flight; the page it was called on is gone.
PageAfterFinallyLeftOpen(pg) == pg
PageAfterFinally(pg) == IF pg = "open" THEN "closed" ELSE pg

ClosePage(i) ==
    /\ pc[i] = "close_page"
    /\ \E env \in IF page[i] = "open" THEN {"ok", "raises"} ELSE {"ok"} :
         /\ page' = [page EXCEPT ![i] = PageAfterFinally(@)]
         /\ IF env = "ok"
            THEN UNCHANGED <<flight, raisedAt>>
            ELSE /\ flight' = [flight EXCEPT ![i] = Raising(Exc("page.close"))]
                 /\ raisedAt' = [raisedAt EXCEPT ![i] = @ \cup {"close_page"}]
    /\ pc' = [pc EXCEPT ![i] = "close_context"]
    /\ UNCHANGED <<trigger, accounts, max_concurrency, mainPc, semaphore,
                   context, held, taskResult, results, wfVars, retryVars>>
    /\ UNCHANGED extVars

\* ------------------------------------------------------- orchestrator.py
\* The finally of lines 47-49: the context is closed when the local
\* `context` is set.
ContextAfterFinally(isHeld, ctx) == IF isHeld THEN "closed" ELSE ctx

\* Lines 44-49 and the exit of `async with semaphore`: the finally closes
\* the context (a close() that raises replaces what was in flight), the slot
\* is given back, and the task ends with the value or exception in flight.
\* The exit of `async with semaphore` (line 28) gives the slot back, with a
\* value or with an exception on its way out.
AfterAsyncWithKeepsSlotOnRaise(slots, f) ==
    IF f.kind = "raise" THEN slots ELSE slots + 1
AfterAsyncWith(slots, f) == slots + 1

CloseContext(i) ==
    /\ pc[i] = "close_context"
    /\ \E env \in IF held[i] THEN {"ok", "raises"} ELSE {"ok"} :
         LET f == IF env = "ok" THEN flight[i]
                  ELSE Raising(Exc("context.close")) IN
         /\ context' = [context EXCEPT ![i] = ContextAfterFinally(held[i], @)]
         /\ raisedAt' = [raisedAt EXCEPT ![i] =
                           IF env = "ok" THEN @ ELSE @ \cup {"close_context"}]
         /\ taskResult' = [taskResult EXCEPT ![i] = OutcomeOf(f)]
         /\ semaphore' = AfterAsyncWith(semaphore, f)
    /\ flight' = [flight EXCEPT ![i] = NoFlight]
    /\ held' = [held EXCEPT ![i] = FALSE]
    /\ pc' = [pc EXCEPT ![i] = "done"]
    /\ UNCHANGED <<trigger, accounts, max_concurrency, mainPc, page, results,
                   wfVars, retryVars>>
    /\ UNCHANGED extVars

\* ------------------------------------------------------------ the system
RetryOff ==
    /\ rArgs = NoInput /\ rPc = "off" /\ rAttempt = 0 /\ rHistory = <<>>
    /\ rSleeps = 0 /\ rResult = NoFlight

WorkflowOff ==
    /\ wInput = NoInput /\ wPc = "off" /\ wReport = NoReport
    /\ wAttempts = 0 /\ wCalls = <<>>

Init ==
    /\ trigger \in Triggers
    /\ accounts \in AccountLists
    /\ max_concurrency \in ConcurrencyValues
    /\ mainPc = "idle"
    /\ semaphore = 0
    /\ pc = [i \in Tasks |-> "uncreated"]
    /\ context = [i \in Tasks |-> "none"]
    /\ held = [i \in Tasks |-> FALSE]
    /\ page = [i \in Tasks |-> "none"]
    /\ flight = [i \in Tasks |-> NoFlight]
    /\ raisedAt = [i \in Tasks |-> {}]
    /\ taskResult = [i \in Tasks |-> Pending]
    /\ results = <<>>
    /\ WorkflowOff
    /\ RetryOff
    /\ OthersOff

Next ==
    \/ Orchestrate
    \/ Gather
    \/ \E i \in Tasks : Acquire(i)
    \/ \E i \in Tasks : NewContext(i)
    \/ \E i \in Tasks : NewPage(i)
    \/ \E i \in Tasks : RunWorkflow(i)
    \/ \E i \in Tasks : Notify(i)
    \/ \E i \in Tasks : Handler(i)
    \/ \E i \in Tasks : ClosePage(i)
    \/ \E i \in Tasks : CloseContext(i)

Spec == Init /\ [][Next]_vars

\* The scheduler under the two triggers that between them take every path
\* of a worker: the Telegram order submission (notifications, the except
\* clause) and the CLI login (no except clause in its runner).
InitSlots ==
    /\ Init
    /\ trigger.frontend \in {"telegram", "cli_login"}
    /\ trigger.performant

SpecSlots == InitSlots /\ [][Next]_vars

\* ------------------------------------------- one workflow, step by step
\* core/workflow.py run for one account with every await of its own a step
\* of the model: each invocation of a step body, the padding sleep.
WorkflowInputs ==
    { [runner |-> "submit", order_number |-> o, dry_run |-> d,
       enforce_min_run |-> m] :
         o \in OrderNumbers, d \in BOOLEAN, m \in BOOLEAN }
    \cup
    { [runner |-> "login", order_number |-> "", dry_run |-> d,
       enforce_min_run |-> m] : d \in BOOLEAN, m \in BOOLEAN }

\* Entry of execute_submit_order (lines 102-131) / execute_login (lines
\* 40-55): the report is created; a dry-run order submission is marked
\* successful with no step.
WorkflowStart ==
    /\ wPc = "start"
    /\ LET r == NewReport(wInput.runner, Account(1), wInput.order_number,
                          wInput.dry_run) IN
       IF wInput.runner = "submit" /\ wInput.dry_run
       THEN /\ wReport' = [r EXCEPT !.success = TRUE]
            /\ wPc' = "finally"
       ELSE /\ wReport' = r
            /\ wPc' = "step"
    /\ UNCHANGED <<wInput, wAttempts, wCalls, schedVars, retryVars>>
    /\ UNCHANGED extVars

\* `result = await step_func(self.page, dry_run)` (line 134, line 56): the
\* wrapper of async_retry invokes the body of the current step (retry.py
\* line 13) and the workflow waits for it.
WorkflowStepCall ==
    /\ wPc = "step"
    /\ LET steps == StepsToExecute(wInput.runner)
           name == steps[Len(wReport.steps) + 1]
       IN wCalls' = Append(wCalls, name)
    /\ wAttempts' = wAttempts + 1
    /\ wPc' = "awaiting"
    /\ UNCHANGED <<wInput, wReport, schedVars, retryVars>>
    /\ UNCHANGED extVars

\* The invocation is over: what the wrapper (retry.py lines 14-21) and the
\* step loop (lines 135-143, lines 57-66) do with its outcome.
WorkflowStep ==
    /\ wPc = "awaiting"
    /\ \E env \in StepEnvs :
         LET steps == StepsToExecute(wInput.runner)
             name == steps[Len(wReport.steps) + 1]
             outcome == StepBody(name, wInput.order_number, wInput.dry_run, env)
             turn == RetryTurn(outcome, wAttempts, MaxAttemptsOf(name), "Exception")
         IN
         CASE turn = "return" ->
                LET a == AfterStep(wReport, outcome.value, steps) IN
                /\ wReport' = a.report
                /\ wPc' = IF a.next = "step" THEN "step" ELSE "finally"
                /\ wAttempts' = IF a.next = "step" THEN 0 ELSE wAttempts
           [] turn = "sleep" ->
                /\ wPc' = "step"
                /\ UNCHANGED <<wReport, wAttempts>>
           [] turn = "raise" ->
                /\ wReport' = WithError(wReport, outcome.exc)
                /\ wPc' = "finally"
                /\ UNCHANGED wAttempts
    /\ UNCHANGED <<wInput, wCalls, schedVars, retryVars>>
    /\ UNCHANGED extVars

\* min_run_seconds of the configuration and the seconds the run has taken.
MinRunSeconds == {0, 2}
ElapsedSeconds == {1, 3}

\* Lines 148-150 (lines 74-76): is there a sleep to make?
PaddingNeededWithoutFloor(enforce_min_run_per_account, min_run_seconds, elapsed) ==
    Max(0, min_run_seconds - elapsed) > 0
PaddingNeeded(enforce_min_run_per_account, min_run_seconds, elapsed) ==
    /\ enforce_min_run_per_account
    /\ Max(0, min_run_seconds - elapsed) > 0

\* Lines 144-153 (lines 71-79): with enforce_min_run_per_account, sleep for
\* what is left of min_run_seconds, when something is left.
WorkflowFinally ==
    /\ wPc = "finally"
    /\ \E min_run_seconds \in MinRunSeconds, elapsed \in ElapsedSeconds :
         wPc' = IF PaddingNeeded(wInput.enforce_min_run, min_run_seconds, elapsed)
                THEN "padding" ELSE "returned"
    /\ UNCHANGED <<wInput, wReport, wAttempts, wCalls, schedVars, retryVars>>
    /\ UNCHANGED extVars

\* Lines 151-158 (lines 77-84): the sleep is over; the report is returned.
WorkflowPadded ==
    /\ wPc = "padding"
    /\ wPc' = "returned"
    /\ UNCHANGED <<wInput, wReport, wAttempts, wCalls, schedVars, retryVars>>
    /\ UNCHANGED extVars

SchedulerOff ==
    /\ trigger = NoInput /\ accounts = <<>> /\ max_concurrency = NotConfigured
    /\ mainPc = "off" /\ semaphore = 0 /\ pc = <<>> /\ context = <<>>
    /\ held = <<>> /\ page = <<>> /\ flight = <<>> /\ raisedAt = <<>>
    /\ taskResult = <<>> /\ results = <<>>

InitWorkflow ==
    /\ wInput \in WorkflowInputs
    /\ wPc = "start"
    /\ wReport = NoReport
    /\ wAttempts = 0
    /\ wCalls = <<>>
    /\ SchedulerOff
    /\ RetryOff
    /\ OthersOff

NextWorkflow ==
    \/ WorkflowStart
    \/ WorkflowStepCall
    \/ WorkflowStep
    \/ WorkflowFinally
    \/ WorkflowPadded

SpecWorkflow == InitWorkflow /\ [][NextWorkflow]_vars

\* ------------------------------------------------- async_retry on its own
\* utils/retry.py around a function that returns or raises as it pleases.
RetryValues == {"v1", "v2"}
ExceptionTypes == {"TimeoutError", "Exception", "CancelledError"}

RetryArgs ==
    { [max_attempts |-> a, catch_exceptions |-> c] :
        a \in 0..MaxAttempts, c \in {"Exception", "TimeoutError"} }

\* What the attempt-th invocation of the wrapped function may do.
FuncOutcomes(attempt) ==
    { Returning(v) : v \in RetryValues }
    \cup { Raising([type |-> t, msg |-> <<"attempt", attempt>>]) :
             t \in ExceptionTypes }

\* Line 11: for attempt in range(1, max_attempts + 1).  An empty range falls
\* out of the loop and the wrapper returns None.
RetryEnter ==
    /\ rPc = "start"
    /\ IF rArgs.max_attempts >= 1
       THEN /\ rAttempt' = 1
            /\ rPc' = "call"
            /\ UNCHANGED rResult
       ELSE /\ rResult' = Returning("None")
            /\ rPc' = "done"
            /\ UNCHANGED rAttempt
    /\ UNCHANGED <<rArgs, rHistory, rSleeps, schedVars, wfVars>>
    /\ UNCHANGED extVars

\* Lines 12-21: one invocation and the handling of its outcome.
RetryInvoke ==
    /\ rPc = "call"
    /\ \E outcome \in FuncOutcomes(rAttempt) :
         LET turn == RetryTurn(outcome, rAttempt, rArgs.max_attempts,
                               rArgs.catch_exceptions) IN
         /\ rHistory' = Append(rHistory, outcome)
         /\ IF turn = "sleep"
            THEN /\ rPc' = "sleep"
                 /\ UNCHANGED rResult
            ELSE /\ rPc' = "done"
                 /\ rResult' = outcome
    /\ UNCHANGED <<rArgs, rAttempt, rSleeps, schedVars, wfVars>>
    /\ UNCHANGED extVars

\* Line 19: await asyncio.sleep(delay), then the next turn of the loop; a
\* loop that has used up its range ends and the wrapper returns None.
RetrySleep ==
    /\ rPc = "sleep"
    /\ rSleeps' = rSleeps + 1
    /\ rAttempt' = rAttempt + 1
    /\ IF rAttempt + 1 <= rArgs.max_attempts
       THEN /\ rPc' = "call"
            /\ UNCHANGED rResult
       ELSE /\ rPc' = "done"
            /\ rResult' = Returning("None")
    /\ UNCHANGED <<rArgs, rHistory, schedVars, wfVars>>
    /\ UNCHANGED extVars

InitRetry ==
    /\ rArgs \in RetryArgs
    /\ rPc = "start"
    /\ rAttempt = 0
    /\ rHistory = <<>>
    /\ rSleeps = 0
    /\ rResult = NoFlight
    /\ SchedulerOff
    /\ WorkflowOff
    /\ OthersOff

NextRetry ==
    \/ RetryEnter
    \/ RetryInvoke
    \/ RetrySleep

SpecRetry == InitRetry /\ [][NextRetry]_vars

\* ------------------------------------------------- the session store
\* The stored session of an account and the code that touches it:
\* PlaywrightAdapter.new_context (playwright_adapter.py lines 78-86) and
\* OptcoinWorkflow._step_login (core/workflow.py lines 191-238), for the
\* workflows that are mid-flight at the same time: the accounts of one
\* orchestrate_accounts call (accounts.json is not checked for duplicate
\* account_name entries) and those of a second trigger handled meanwhile
\* (telegram_bot.py line 137 starts one task per /copy message).
SessionNames == {"account1", "account2"}
SessionTriggers == {"first", "second"}

\* storage_dir / f"{account.account_name}.json" (actions.py line 69).
StoragePath(account_name) == <<"storage_states", account_name, ".json">>

SessionPaths == { StoragePath(n) : n \in SessionNames }

\* Each mid-flight workflow: the trigger it belongs to, its account, the
\* trigger's dry_run and app_config.storage_state_enabled.  The workflows of
\* the first trigger come first, and the first account is "account1".
SessionConfs ==
    { c \in UNION { [1..k -> [trigger : SessionTriggers,
                              account_name : SessionNames,
                              dry_run : BOOLEAN,
                              storage_state_enabled : BOOLEAN]] :
                      k \in 1..MaxWorkflows } :
        /\ c[1].trigger = "first"
        /\ c[1].account_name = "account1"
        /\ \A v, w \in DOMAIN c :
             /\ c[v].storage_state_enabled = c[w].storage_state_enabled
             /\ c[v].trigger = c[w].trigger => c[v].dry_run = c[w].dry_run
             /\ (v < w /\ c[v].trigger = "second") => c[w].trigger = "second" }

Workflows == DOMAIN lConf

PathOf(w) == StoragePath(lConf[w].account_name)

\* storage_state_path is None unless app_config.storage_state_enabled.
HasPath(w) == lConf[w].storage_state_enabled

FileExists(w) == HasPath(w) /\ sessionFile[PathOf(w)] = "present"

\* The URLs a navigation to the protected page can end on.
DeliveryUrl == <<"base", "#", "/delivery">>
LoginUrl == <<"base", "#", "/login">>
NoUrl == <<>>

\* "/login" in url
OnLoginSurface(url) == \E k \in DOMAIN url : url[k] = "/login"

LoginSuccess == [step |-> "login", success |-> TRUE]
LoginCached == [step |-> "login", success |-> TRUE, cached |-> TRUE]
LoginSimulated == [step |-> "login", success |-> TRUE, simulated |-> TRUE]
LoginFailure(e) ==
    [step |-> "login", success |-> FALSE, error |-> <<"login failed", e>>]
NoStep == [step |-> "none"]

\* Lines 201-209: wait_for_url("/login" in url) returns when the navigation
\* landed on the login surface (the file is stale, line 205 deletes it) and
\* times out otherwise (line 211 then looks for the delivery tab).
AfterWaitForLoginTrustsBounce(url) ==
    IF OnLoginSurface(url) THEN "cached" ELSE "tab"
AfterWaitForLoginKeepsFile(url) ==
    IF OnLoginSurface(url) THEN "fresh" ELSE "tab"
AfterWaitForLogin(url) ==
    IF OnLoginSurface(url) THEN "unlink" ELSE "tab"

\* Lines 210-220: the tab is visible (cached success), the wait times out
\* (stale, line 217 deletes the file) or raises something else (line 235).
AfterTabWaitKeepsFile(tab) ==
    CASE tab = "visible" -> "cached"
      [] tab = "timeout" -> "fresh"
      [] OTHER -> "failed"
AfterTabWait(tab) ==
    CASE tab = "visible" -> "cached"
      [] tab = "timeout" -> "unlink"
      [] OTHER -> "failed"

\* Lines 229-231: once wait_for_url has seen the page leave the login
\* surface the session is saved, when there is a path to save it to.
AfterWaitAwaySavesAnyway(away, has_path) ==
    IF has_path THEN "saving" ELSE IF away THEN "success" ELSE "failed"
AfterWaitAway(away, has_path) ==
    IF ~away THEN "failed" ELSE IF has_path THEN "saving" ELSE "success"

Called(w, call) == lCalls' = [lCalls EXCEPT ![w] = Append(@, call)]

Count(calls, call) == Cardinality({ k \in DOMAIN calls : calls[k] = call })

LoginReturns(w, result) ==
    /\ lResult' = [lResult EXCEPT ![w] = result]
    /\ lPc' = [lPc EXCEPT ![w] = "returned"]

\* playwright_adapter.py lines 78-86: when the file exists its path is
\* handed to browser.new_context, which loads it.
SessionNewContext(w) ==
    /\ lPc[w] = "queued"
    /\ IF FileExists(w)
       THEN lPc' = [lPc EXCEPT ![w] = "reading"]
       ELSE lPc' = [lPc EXCEPT ![w] = "step"]
    /\ IF HasPath(w) THEN Called(w, "new_context.exists") ELSE UNCHANGED lCalls
    /\ UNCHANGED <<sessionFile, lConf, lExisted, lLanded, lResult>>
    /\ UNCHANGED notSession

\* browser.new_context(storage_state=path) has read the file; it raises when
\* the file has gone in the meantime, and the account's run ends there.
SessionLoaded(w) ==
    /\ lPc[w] = "reading"
    /\ Called(w, "new_context.read")
    /\ IF sessionFile[PathOf(w)] = "present"
       THEN /\ lPc' = [lPc EXCEPT ![w] = "step"]
            /\ UNCHANGED lResult
       ELSE /\ lPc' = [lPc EXCEPT ![w] = "raised"]
            /\ UNCHANGED lResult
    /\ UNCHANGED <<sessionFile, lConf, lExisted, lLanded>>
    /\ UNCHANGED notSession

\* Lines 194-200: dry run; else the existence test and the navigation to
\* the protected page, in which goto may raise.
LoginEnter(w) ==
    /\ lPc[w] = "step"
    /\ IF lConf[w].dry_run
       THEN /\ LoginReturns(w, LoginSimulated)
            /\ UNCHANGED <<lExisted, lCalls>>
       ELSE IF FileExists(w)
       THEN \E goto \in {"ok", "raises"} :
              /\ lExisted' = [lExisted EXCEPT ![w] = TRUE]
              /\ lCalls' = [lCalls EXCEPT ![w] =
                              @ \o <<"login.exists", "login.goto_delivery">>]
              /\ IF goto = "ok"
                 THEN /\ lPc' = [lPc EXCEPT ![w] = "validate"]
                      /\ UNCHANGED lResult
                 ELSE LoginReturns(w, LoginFailure("page.goto"))
       ELSE /\ IF HasPath(w) THEN Called(w, "login.exists")
               ELSE UNCHANGED lCalls
            /\ lPc' = [lPc EXCEPT ![w] = "fresh"]
            /\ UNCHANGED <<lExisted, lResult>>
    /\ UNCHANGED <<sessionFile, lConf, lLanded>>
    /\ UNCHANGED notSession

\* Line 202: where the navigation landed decides what follows.
LoginValidate(w) ==
    /\ lPc[w] = "validate"
    /\ \E url \in {DeliveryUrl, LoginUrl} :
         /\ lLanded' = [lLanded EXCEPT ![w] = url]
         /\ LET next == AfterWaitForLogin(url) IN
            IF next = "cached"
            THEN LoginReturns(w, LoginCached)
            ELSE lPc' = [lPc EXCEPT ![w] = next] /\ UNCHANGED lResult
    /\ Called(w, "login.wait_for_login_url")
    /\ UNCHANGED <<sessionFile, lConf, lExisted>>
    /\ UNCHANGED notSession

\* Lines 210-215: the delivery tab is looked for on the page that did not
\* bounce to the login surface.
LoginTab(w) ==
    /\ lPc[w] = "tab"
    /\ \E tab \in (IF OnLoginSurface(lLanded[w]) THEN {"timeout", "error"}
                   ELSE {"visible", "timeout", "error"}) :
         LET next == AfterTabWait(tab) IN
         CASE next = "cached" -> LoginReturns(w, LoginCached)
           [] next = "failed" -> LoginReturns(w, LoginFailure("locator.wait_for"))
           [] OTHER -> lPc' = [lPc EXCEPT ![w] = next] /\ UNCHANGED lResult
    /\ Called(w, "login.wait_for_tab")
    /\ UNCHANGED <<sessionFile, lConf, lExisted, lLanded>>
    /\ UNCHANGED notSession

\* Lines 204-208 and 216-220: Path.unlink(); its exception (the file has
\* gone already) is logged and the step goes on.
LoginUnlink(w) ==
    /\ lPc[w] = "unlink"
    /\ sessionFile' = [sessionFile EXCEPT ![PathOf(w)] = "absent"]
    /\ Called(w, "login.unlink")
    /\ lPc' = [lPc EXCEPT ![w] = "fresh"]
    /\ UNCHANGED <<lConf, lExisted, lLanded, lResult>>
    /\ UNCHANGED notSession

\* Lines 222-228: the login page, its form, the credentials, the click.
LoginFresh(w) ==
    /\ lPc[w] = "fresh"
    /\ \E form \in {"ok", "raises"} :
         IF form = "ok"
         THEN /\ lCalls' = [lCalls EXCEPT ![w] =
                              @ \o <<"login.goto_login", "login.fill">>]
              /\ lPc' = [lPc EXCEPT ![w] = "submitted"]
              /\ UNCHANGED lResult
         ELSE /\ Called(w, "login.goto_login")
              /\ LoginReturns(w, LoginFailure("page.goto"))
    /\ UNCHANGED <<sessionFile, lConf, lExisted, lLanded>>
    /\ UNCHANGED notSession

\* Lines 229-230: wait_for_url("/login" not in url).
LoginWaitAway(w) ==
    /\ lPc[w] = "submitted"
    /\ \E away \in BOOLEAN :
         LET next == AfterWaitAway(away, HasPath(w)) IN
         /\ Called(w, IF away THEN "login.left_login" ELSE "login.stayed_on_login")
         /\ CASE next = "failed" -> LoginReturns(w, LoginFailure("page.wait_for_url"))
              [] next = "success" -> LoginReturns(w, LoginSuccess)
              [] OTHER -> lPc' = [lPc EXCEPT ![w] = next] /\ UNCHANGED lResult
    /\ UNCHANGED <<sessionFile, lConf, lExisted, lLanded>>
    /\ UNCHANGED notSession

\* Lines 231-234: browser_context.storage_state(path=...) writes the file,
\* or raises and line 235 turns that into a failure.
LoginSaved(w) ==
    /\ lPc[w] = "saving"
    /\ \E written \in BOOLEAN :
         IF written
         THEN /\ sessionFile' = [sessionFile EXCEPT ![PathOf(w)] = "present"]
              /\ Called(w, "login.storage_state")
              /\ LoginReturns(w, LoginSuccess)
         ELSE /\ UNCHANGED sessionFile
              /\ Called(w, "login.storage_state_raised")
              /\ LoginReturns(w, LoginFailure("storage_state"))
    /\ UNCHANGED <<lConf, lExisted, lLanded>>
    /\ UNCHANGED notSession

InitSession ==
    /\ lConf \in SessionConfs
    /\ sessionFile \in [SessionPaths -> {"absent", "present"}]
    /\ lPc = [w \in Workflows |-> "queued"]
    /\ lExisted = [w \in Workflows |-> FALSE]
    /\ lLanded = [w \in Workflows |-> NoUrl]
    /\ lCalls = [w \in Workflows |-> <<>>]
    /\ lResult = [w \in Workflows |-> NoStep]
    /\ SchedulerOff
    /\ WorkflowOff
    /\ RetryOff
    /\ AlertOff
    /\ FrontOff
    /\ HealthOff
    /\ CaptureOff

NextSession ==
    \/ \E w \in Workflows : SessionNewContext(w)
    \/ \E w \in Workflows : SessionLoaded(w)
    \/ \E w \in Workflows : LoginEnter(w)
    \/ \E w \in Workflows : LoginValidate(w)
    \/ \E w \in Workflows : LoginTab(w)
    \/ \E w \in Workflows : LoginUnlink(w)
    \/ \E w \in Workflows : LoginFresh(w)
    \/ \E w \in Workflows : LoginWaitAway(w)
    \/ \E w \in Workflows : LoginSaved(w)

SpecSession == InitSession /\ [][NextSession]_vars

\* ------------------------------------------------ the alert classifier
\* core/workflow.py lines 289-305: what _step_enter_order_and_recognize
\* makes of the message _capture_alert_message handed it.  A message is a
\* sequence of words; `phrase in msg_lower` is the phrase's words found in
\* consecutive words of the lower-cased message.
Vocabulary == {"Already", "followed", "the", "order", "Invalid", "parameter",
               "xyz", "Error:", "not"}

Messages == UNION { [1..n -> Vocabulary] : n \in 0..MaxMsgLen }

\* str.lower() on one word.
LowerWord(t) ==
    CASE t = "Already" -> "already"
      [] t = "Invalid" -> "invalid"
      [] t = "Error:" -> "error:"
      [] OTHER -> t

Lower(msg) == [k \in DOMAIN msg |-> LowerWord(msg[k])]

\* The word `w` is a substring of the word `t`.
WordIn(w, t) ==
    \/ t = w
    \/ w = "error" /\ t = "error:"
    \/ w = "follow" /\ t = "followed"

\* phrase in msg
PhraseIn(phrase, msg) ==
    \E i \in 1..(Len(msg) - Len(phrase) + 1) :
        \A k \in 1..Len(phrase) : WordIn(phrase[k], msg[i + k - 1])

\* Line 292 (the last five stand for the Chinese phrases of the list).
FollowedPhrases ==
    {<<"already", "followed">>, <<"already">>, <<"suivi">>, <<"followed">>,
     <<"yi gen">>, <<"gen dan">>, <<"yi guanzhu">>, <<"yi gensui">>,
     <<"gensui">>}

\* Line 295.
ErrorPhrases ==
    {<<"invalid">>, <<"not", "found">>, <<"error">>, <<"incorrect">>,
     <<"not", "exist">>, <<"invalide">>, <<"non", "trouve">>, <<"erreur">>}

\* any(phrase in msg for phrase in phrases)
AnyPhraseIn(phrases, msg) == \E phrase \in phrases : PhraseIn(phrase, msg)

\* Lines 291-297.
RecognizeAlertCaseSensitive(msg, order_number) ==
    IF AnyPhraseIn(FollowedPhrases, msg)
    THEN [step |-> "enter_order_and_recognize", success |-> TRUE,
          order_number |-> order_number, alert_message |-> msg]
    ELSE IF AnyPhraseIn(ErrorPhrases, msg)
    THEN [step |-> "enter_order_and_recognize", success |-> FALSE,
          error |-> <<"Code d'ordre invalide", msg>>, alert_message |-> msg]
    ELSE [step |-> "enter_order_and_recognize", success |-> FALSE,
          error |-> <<"La reconnaissance a echoue", msg>>,
          alert_message |-> msg]
RecognizeAlert(msg, order_number) ==
    LET msg_lower == Lower(msg) IN
    IF AnyPhraseIn(FollowedPhrases, msg_lower)
    THEN [step |-> "enter_order_and_recognize", success |-> TRUE,
          order_number |-> order_number, alert_message |-> msg]
    ELSE IF AnyPhraseIn(ErrorPhrases, msg_lower)
    THEN [step |-> "enter_order_and_recognize", success |-> FALSE,
          error |-> <<"Code d'ordre invalide", msg>>, alert_message |-> msg]
    ELSE [step |-> "enter_order_and_recognize", success |-> FALSE,
          error |-> <<"La reconnaissance a echoue", msg>>,
          alert_message |-> msg]

\* Lines 289-297: `if recognize_alert:`; an empty capture is no alert and
\* the step goes on to wait for the confirm button.
AlertRecognize ==
    /\ aPc = "captured"
    /\ IF aMsg # <<>>
       THEN /\ aResult' = RecognizeAlert(aMsg, "1001")
            /\ aPc' = "returned"
       ELSE /\ aPc' = "waiting"
            /\ UNCHANGED aResult
    /\ UNCHANGED aMsg
    /\ UNCHANGED notAlert

\* Lines 298-305: the confirm button shows up (implicit success) or the wait
\* times out, on the login surface or elsewhere.
AlertConfirmButton ==
    /\ aPc = "waiting"
    /\ \E seen \in {"visible", "timeout_on_login", "timeout"} :
         aResult' =
            CASE seen = "visible" ->
                   [step |-> "enter_order_and_recognize", success |-> TRUE,
                    order_number |-> "1001"]
              [] seen = "timeout_on_login" ->
                   [step |-> "enter_order_and_recognize", success |-> FALSE,
                    error |-> <<"Redirige vers la page de connexion">>]
              [] OTHER ->
                   [step |-> "enter_order_and_recognize", success |-> FALSE,
                    error |-> <<"Le bouton de confirmation n'est pas apparu">>]
    /\ aPc' = "returned"
    /\ UNCHANGED aMsg
    /\ UNCHANGED notAlert

InitAlert ==
    /\ aMsg \in Messages
    /\ aPc = "captured"
    /\ aResult = [step |-> "none"]
    /\ SchedulerOff
    /\ WorkflowOff
    /\ RetryOff
    /\ SessionOff
    /\ FrontOff
    /\ HealthOff
    /\ CaptureOff

NextAlert ==
    \/ AlertRecognize
    \/ AlertConfirmButton

SpecAlert == InitAlert /\ [][NextAlert]_vars

\* ------------------------------------------- the steps that capture an alert
\* core/workflow.py: _step_enter_order_and_recognize and _step_confirm_order
\* around _capture_alert_message, every await on the page a step of the
\* model.  A text is a sequence of words; " " is a run of white space.
DialogTexts == {<<>>, <<" ">>, <<"Already", "followed">>}
AlertTexts == {<<>>, <<" ">>, <<"Invalid", "parameter">>, <<"xyz">>}
LocatorTexts == {<<>>, <<" ">>, <<"Error:", "xyz">>}

\* page.wait_for_event("dialog"): a dialog with its message, the timeout, or
\* another error of the browser.
Dialogs ==
    { [state |-> "timeout"], [state |-> "raises"] }
    \cup { [state |-> "shown", message |-> t] : t \in DialogTexts }

\* The elements with role="alert", in document order.
AlertElements ==
    { [visible |-> TRUE, text |-> t] : t \in AlertTexts }
    \cup { [visible |-> FALSE, text |-> <<"xyz">>] }

RoleAlerts ==
    { [state |-> "raises"] }
    \cup { [state |-> "found", elements |-> e] :
             e \in UNION { [1..n -> AlertElements] : n \in 0..MaxAlerts } }

\* The login error message of selector_login_error_message.
ErrorLocators ==
    { [state |-> "hidden"], [state |-> "raises"] }
    \cup { [state |-> "visible", text |-> t] : t \in LocatorTexts }

CaptureEnvs == [dialog : Dialogs, alerts : RoleAlerts, error : ErrorLocators]

\* str.strip()
RECURSIVE Strip(_)
Strip(txt) ==
    IF txt = <<>> THEN <<>>
    ELSE IF Head(txt) = " " THEN Strip(Tail(txt))
    ELSE IF txt[Len(txt)] = " " THEN Strip(SubSeq(txt, 1, Len(txt) - 1))
    ELSE txt

NoAlert == [captured |-> FALSE]
Captured(text) == [captured |-> TRUE, text |-> text]

\* Lines 162-167: `if msg:` on the dialog's message as it is.
FromDialogNever(dialog) == NoAlert
FromDialog(dialog) ==
    IF dialog.state = "shown" /\ dialog.message # <<>>
    THEN Captured(dialog.message) ELSE NoAlert

\* Lines 171-179: the first visible element whose stripped text is not
\* empty; an error of the page is swallowed.
FromRoleAlerts(alerts) ==
    IF alerts.state = "raises" THEN NoAlert
    ELSE LET e == alerts.elements
             hits == { k \in DOMAIN e : e[k].visible /\ Strip(e[k].text) # <<>> }
         IN IF hits = {} THEN NoAlert
            ELSE Captured(Strip(e[CHOOSE k \in hits : \A j \in hits : k <= j].text))

\* Lines 181-188.
FromErrorLocator(loc) ==
    IF loc.state = "visible" /\ Strip(loc.text) # <<>>
    THEN Captured(Strip(loc.text)) ELSE NoAlert

StepName(step) ==
    IF step = "recognize" THEN "enter_order_and_recognize" ELSE "confirm_order"

Failure(step, error) == [step |-> StepName(step), success |-> FALSE, error |-> error]

\* The except clauses of lines 306-317 and 347-354.
Unexpected(step, kind, on_login) ==
    Failure(step, <<kind>> \o (IF step = "recognize" /\ on_login
                                THEN <<"Redirige pendant l'operation">>
                                ELSE <<>>))

\* Lines 329-343.  The terms of line 330, the last five standing for the
\* Chinese ones.
FollowTerms ==
    {<<"follow">>, <<"followed">>, <<"follow", "this">>, <<"yi gen">>,
     <<"gen dan">>, <<"yi guanzhu">>, <<"yi gensui">>, <<"gensui">>}

ConfirmAlert(msg) ==
    LET msg_lower == Lower(msg) IN
    IF \/ PhraseIn(<<"already", "followed", "the", "order">>, msg_lower)
       \/ PhraseIn(<<"already">>, msg_lower) /\ AnyPhraseIn(FollowTerms, msg_lower)
    THEN [step |-> "confirm_order", success |-> TRUE, alert_message |-> msg]
    ELSE [step |-> "confirm_order", success |-> FALSE,
          error |-> IF PhraseIn(<<"Invalid", "parameter">>, msg)
                    THEN <<"Parametre invalide detecte">>
                    ELSE <<"La confirmation a retourne une alerte", msg>>,
          alert_message |-> msg]

Did(call) == cCalls' = Append(cCalls, call)

StepReturns(result) == cResult' = result /\ cPc' = "returned"

\* Lines 285-288 and 325-326: what comes before the capture.  The recognize
\* step gives up at once on the login surface; the fill, the wait and the
\* clicks may time out or fail.
CaptureEnter ==
    /\ cPc = "start"
    /\ \E pre \in {"ok", "on_login", "timeout", "error"}, on_login \in BOOLEAN :
         /\ pre = "on_login" => cStep = "recognize" /\ on_login
         /\ pre = "ok" => ~on_login
         /\ cStep = "confirm" => ~on_login
         /\ CASE pre = "ok" -> /\ cPc' = "dialog"
                               /\ Did("click")
                               /\ UNCHANGED cResult
              [] pre = "on_login" ->
                   /\ StepReturns(Failure(cStep, <<"Redirige vers la page de connexion">>))
                   /\ UNCHANGED cCalls
              [] pre = "timeout" ->
                   /\ StepReturns(Unexpected(cStep, "Delai d'attente depasse", on_login))
                   /\ UNCHANGED cCalls
              [] OTHER ->
                   /\ StepReturns(Unexpected(cStep, "Erreur inattendue", on_login))
                   /\ UNCHANGED cCalls
    /\ UNCHANGED <<cStep, cEnv, cAlert>>
    /\ UNCHANGED notCapture

\* Lines 161-169: the dialog.  Only the timeout is caught there; any other
\* error leaves _capture_alert_message and is caught by the step.
CaptureDialog ==
    /\ cPc = "dialog"
    /\ Did("dialog")
    /\ IF cEnv.dialog.state = "raises"
       THEN /\ StepReturns(Unexpected(cStep, "Erreur inattendue", FALSE))
            /\ UNCHANGED cAlert
       ELSE LET r == FromDialog(cEnv.dialog) IN
            /\ cPc' = IF r.captured THEN "captured" ELSE "role_alert"
            /\ cAlert' = r
            /\ UNCHANGED cResult
    /\ UNCHANGED <<cStep, cEnv>>
    /\ UNCHANGED notCapture

\* Lines 170-179: the elements with role="alert".
CaptureRoleAlerts ==
    /\ cPc = "role_alert"
    /\ Did("role_alert")
    /\ LET r == FromRoleAlerts(cEnv.alerts) IN
       /\ cPc' = IF r.captured THEN "captured" ELSE "error_locator"
       /\ cAlert' = r
    /\ UNCHANGED <<cStep, cEnv, cResult>>
    /\ UNCHANGED notCapture

\* Lines 180-189: the error-message locator, then `return None`.
CaptureErrorLocator ==
    /\ cPc = "error_locator"
    /\ Did("error_locator")
    /\ cAlert' = FromErrorLocator(cEnv.error)
    /\ cPc' = "captured"
    /\ UNCHANGED <<cStep, cEnv, cResult>>
    /\ UNCHANGED notCapture

\* Lines 290-297 and 328-343: `if recognize_alert:` / `if confirm_alert:`.
\* An alert is classified; with none the recognize step waits for the
\* confirm button and the confirm step for the page to settle.
StepClassify ==
    /\ cPc = "captured"
    /\ IF cAlert.captured
       THEN StepReturns(IF cStep = "recognize"
                        THEN RecognizeAlert(cAlert.text, "1001")
                        ELSE ConfirmAlert(cAlert.text))
       ELSE /\ cPc' = IF cStep = "recognize" THEN "button" ELSE "settle"
            /\ UNCHANGED cResult
    /\ UNCHANGED <<cStep, cEnv, cCalls, cAlert>>
    /\ UNCHANGED notCapture

\* Lines 298-305: the confirm button within 8000 ms; on the timeout the
\* page's URL chooses the error.  Another error goes to line 312.
AfterButtonWaitAlwaysFails(seen, on_login) ==
    IF on_login
    THEN Failure("recognize", <<"Redirige vers la page de connexion apres la tentative">>)
    ELSE Failure("recognize", <<"Le bouton de confirmation n'est pas apparu">>)
AfterButtonWait(seen, on_login) ==
    CASE seen = "visible" ->
           [step |-> "enter_order_and_recognize", success |-> TRUE,
            order_number |-> "1001"]
      [] seen = "timeout" /\ on_login ->
           Failure("recognize", <<"Redirige vers la page de connexion apres la tentative">>)
      [] seen = "timeout" ->
           Failure("recognize", <<"Le bouton de confirmation n'est pas apparu">>)
      [] OTHER -> Unexpected("recognize", "Erreur inattendue", on_login)

StepConfirmButton ==
    /\ cPc = "button"
    /\ \E seen \in {"visible", "timeout", "error"}, on_login \in BOOLEAN :
         /\ seen = "visible" => ~on_login
         /\ cCalls' = cCalls \o <<"confirm_button." \o seen>>
                        \o (IF seen = "visible" THEN <<>>
                            ELSE IF on_login THEN <<"url.login">>
                            ELSE <<"url.delivery">>)
         /\ StepReturns(AfterButtonWait(seen, on_login))
    /\ UNCHANGED <<cStep, cEnv, cAlert>>
    /\ UNCHANGED notCapture

\* Lines 344-346: page.wait_for_timeout(1000), then the success; an error of
\* the wait goes to line 351.
AfterSettle(settled) ==
    IF settled THEN [step |-> "confirm_order", success |-> TRUE]
    ELSE Unexpected("confirm", "Erreur inattendue", FALSE)

StepSettle ==
    /\ cPc = "settle"
    /\ \E settled \in BOOLEAN :
         /\ Did(IF settled THEN "settle.elapsed" ELSE "settle.raises")
         /\ StepReturns(AfterSettle(settled))
    /\ UNCHANGED <<cStep, cEnv, cAlert>>
    /\ UNCHANGED notCapture

InitCapture ==
    /\ cStep \in {"recognize", "confirm"}
    /\ cEnv \in CaptureEnvs
    /\ cPc = "start"
    /\ cCalls = <<>>
    /\ cAlert = NoAlert
    /\ cResult = [step |-> "none"]
    /\ SchedulerOff
    /\ WorkflowOff
    /\ RetryOff
    /\ SessionOff
    /\ AlertOff
    /\ FrontOff
    /\ HealthOff

NextCapture ==
    \/ CaptureEnter
    \/ CaptureDialog
    \/ CaptureRoleAlerts
    \/ CaptureErrorLocator
    \/ StepClassify
    \/ StepConfirmButton
    \/ StepSettle

SpecCapture == InitCapture /\ [][NextCapture]_vars

\* ------------------------------------------------------- the front ends
\* cli.py (login, submit_order), server/main.py (handle_whatsapp_webhook,
\* run_trade_task) and telegram_bot.py (copy_handler, run_trade_task): one
\* trigger from its acceptance to the end of its handling.  The accounts'
\* runs are those of orchestrator.py and actions.py, kept here to what the
\* front end sees of them: a task per account, its outcome, and the
\* messages run_submit_order_for_account sends on the chat.
FrontEnds == {"cli_login", "cli_submit", "webhook", "telegram"}

ChatFrontEnds == {"webhook", "telegram"}

\* The accounts file: its account list, or a file that does not parse.
AccountFiles ==
    { [state |-> "parsed", accounts |-> l] :
        l \in {<<>>} \cup AccountLists }
    \cup { [state |-> "malformed", accounts |-> <<>>] }

\* OPTCOIN_USERNAME and OPTCOIN_PASSWORD of the environment: set, or not
\* (None or the empty string, both false in `if`).
EnvUsernames == {<<>>, <<"user", 0>>}
EnvPasswords == {"", "secret"}

\* --dry-run and --yes are options of the submit-order command (cli.py
\* 96-97); the other front ends have no prompt and carry them unset.
FrontOptions(frontend) ==
    IF frontend = "cli_submit" THEN BOOLEAN ELSE {FALSE}

FrontTriggers ==
    UNION { [frontend : {fe}, file : AccountFiles,
             optcoin_username : EnvUsernames, optcoin_password : EnvPasswords,
             max_concurrency : {Configured(1), Configured(2)},
             dry_run : FrontOptions(fe), yes : FrontOptions(fe)] :
            fe \in FrontEnds }

DefaultAccount(optcoin_username) ==
    [account_name |-> <<"default_account">>, username |-> optcoin_username]

\* actions.py lines 12-26.
GetAccountsToProcessEitherCredential(file, optcoin_username, optcoin_password) ==
    IF file.accounts # <<>> THEN file.accounts
    ELSE IF optcoin_username # <<>> \/ optcoin_password # ""
    THEN <<DefaultAccount(optcoin_username)>>
    ELSE <<>>
GetAccountsToProcess(file, optcoin_username, optcoin_password) ==
    IF file.accounts # <<>> THEN file.accounts
    ELSE IF optcoin_username # <<>> /\ optcoin_password # ""
    THEN <<DefaultAccount(optcoin_username)>>
    ELSE <<>>

\* `if not accounts_to_process:` (cli.py 41 and 122, server/main.py 19,
\* telegram_bot.py 35).
RejectsNever(accounts_to_process) == FALSE
Rejects(accounts_to_process) == accounts_to_process = <<>>

FrontTasks == DOMAIN fTask

StillRunning == { i \in FrontTasks : fTask[i] # "done" }

\* A message on the reply channel, with the tasks unfinished when it went.
Message(kind, about) == [kind |-> kind, about |-> about, running |-> StillRunning]

Say(kind, about) == fChannel' = Append(fChannel, Message(kind, about))

\* cli.py 114: `if not dry_run and not yes:` before click.confirm.
NeedsConfirmationNever(dry_run, yes) == FALSE
NeedsConfirmation(dry_run, yes) == ~dry_run /\ ~yes

\* cli.py 115-118: click.confirm(..., abort=True) returns on a yes and
\* raises click.Abort, which ends the command, on a no.
AfterConfirm(answer) ==
    IF answer = "yes"
    THEN [prompt |-> "confirmed", next |-> "task"]
    ELSE [prompt |-> "declined", next |-> "aborted"]

\* The command is taken: copy_handler answers and starts run_trade_task
\* (telegram_bot.py 134-137), the webhook queues the task and answers that a
\* report will follow (server/main.py 84-86), the CLI login command just
\* runs, the CLI submit-order command asks first unless told not to.
FrontAccept ==
    /\ fPc = "received"
    /\ IF fTrigger.frontend \in ChatFrontEnds
       THEN Say("received", {})
       ELSE UNCHANGED fChannel
    /\ IF /\ fTrigger.frontend = "cli_submit"
          /\ NeedsConfirmation(fTrigger.dry_run, fTrigger.yes)
       THEN \E answer \in {"yes", "no"} :
              /\ fPrompt' = AfterConfirm(answer).prompt
              /\ fPc' = AfterConfirm(answer).next
       ELSE /\ fPc' = "task"
            /\ UNCHANGED fPrompt
    /\ UNCHANGED <<fTrigger, fAccounts, fBrowser, fScheduler, fTask, fOutcome,
                   fFinished, fResults, fContexts>>
    /\ UNCHANGED notFront

\* The accounts are resolved and an empty list is turned away.  A file that
\* does not parse raises ValueError out of load_accounts_from_json
\* (config.py 125), outside every try of the front ends.
FrontResolve ==
    /\ fPc = "task"
    /\ LET fe == fTrigger.frontend
           telegram == fe = "telegram"
           launching == IF telegram THEN <<Message("launching", {})>> ELSE <<>>
           found == GetAccountsToProcess(fTrigger.file, fTrigger.optcoin_username,
                                         fTrigger.optcoin_password)
       IN
       IF fTrigger.file.state = "malformed"
       THEN /\ fPc' = "crashed"
            /\ fChannel' = fChannel \o launching
            /\ UNCHANGED fAccounts
       ELSE IF Rejects(found)
       THEN /\ fPc' = "rejected"
            /\ fChannel' = fChannel \o launching \o
                             (IF fe = "webhook" THEN <<>>
                              ELSE <<Message("no_accounts", {})>>)
            /\ fAccounts' = found
       ELSE /\ fPc' = "launch"
            /\ fChannel' = fChannel \o launching
            /\ fAccounts' = found
    /\ UNCHANGED <<fTrigger, fBrowser, fScheduler, fTask, fOutcome, fFinished,
                   fResults, fContexts>>
    /\ UNCHANGED fPrompt
    /\ UNCHANGED notFront

\* What the front end makes of an exception of its run: the chat message of
\* telegram_bot.py 89-91, the console line of cli.py 68-70 and 156-158, a
\* log entry only in server/main.py 40-41.
OnRunError(frontend) ==
    IF frontend = "webhook" THEN <<>> ELSE <<Message("critical", {})>>

\* PlaywrightAdapter() and launch_browser, then orchestrate_accounts creates
\* one task per account.
FrontLaunch ==
    /\ fPc = "launch"
    /\ \E env \in {"ok", "raises"} :
         IF env = "ok"
         THEN /\ fBrowser' = "launched"
              /\ fScheduler' = "running"
              /\ fTask' = [i \in DOMAIN fAccounts |-> "queued"]
              /\ fOutcome' = [i \in DOMAIN fAccounts |-> "none"]
              /\ fPc' = "running"
              /\ UNCHANGED fChannel
         ELSE /\ fPc' = "done"
              /\ fChannel' = fChannel \o OnRunError(fTrigger.frontend)
              /\ UNCHANGED <<fBrowser, fScheduler, fTask, fOutcome>>
    /\ UNCHANGED <<fTrigger, fAccounts, fFinished, fResults, fContexts>>
    /\ UNCHANGED fPrompt
    /\ UNCHANGED notFront

\* orchestrator.py 28-43: a slot of the semaphore, then the context.
FrontTaskStart(i) ==
    /\ fScheduler = "running"
    /\ fTask[i] = "queued"
    /\ Cardinality({ j \in FrontTasks : fTask[j] \in {"running", "notifying"} })
         < Limit(fTrigger.max_concurrency)
    /\ fTask' = [fTask EXCEPT ![i] = "running"]
    /\ fContexts' = fContexts + 1
    /\ UNCHANGED <<fTrigger, fPc, fAccounts, fBrowser, fScheduler, fOutcome,
                   fFinished, fResults, fChannel>>
    /\ UNCHANGED fPrompt
    /\ UNCHANGED notFront

\* Does run_submit_order_for_account announce this outcome on the chat?
\* (actions.py 85-86 for a failed report, 90-91 in the except clause.)
Announces(frontend, outcome) ==
    frontend = "telegram" /\ outcome \in {"failed", "critical"}

\* The account's run: a successful report, a failed report of the workflow,
\* the failed report of the except clause, or an exception that leaves the
\* task (context creation, a close()).
FrontTaskRun(i) ==
    /\ fTask[i] = "running"
    /\ \E outcome \in {"success", "failed", "critical", "exception"} :
         /\ (outcome = "critical" => fTrigger.frontend # "cli_login")
         /\ fOutcome' = [fOutcome EXCEPT ![i] = outcome]
         /\ IF Announces(fTrigger.frontend, outcome)
            THEN /\ fTask' = [fTask EXCEPT ![i] = "notifying"]
                 /\ UNCHANGED fFinished
            ELSE /\ fTask' = [fTask EXCEPT ![i] = "done"]
                 /\ fFinished' = Append(fFinished, i)
    /\ UNCHANGED <<fTrigger, fPc, fAccounts, fBrowser, fScheduler, fResults,
                   fContexts, fChannel>>
    /\ UNCHANGED fPrompt
    /\ UNCHANGED notFront

\* actions.py 86 and 91: telethon_client.send_message(chat_id, ...), before
\* the report is returned.
FrontTaskNotify(i) ==
    /\ fTask[i] = "notifying"
    /\ Say(IF fOutcome[i] = "failed" THEN "account_failed"
           ELSE "account_critical", {i})
    /\ fTask' = [fTask EXCEPT ![i] = "done"]
    /\ fFinished' = Append(fFinished, i)
    /\ UNCHANGED <<fTrigger, fPc, fAccounts, fBrowser, fScheduler, fOutcome,
                   fResults, fContexts>>
    /\ UNCHANGED fPrompt
    /\ UNCHANGED notFront

\* What the task of account i ended with, and for which input account.
TaskOutcome(i) == [account |-> fAccounts[i], outcome |-> fOutcome[i]]

\* orchestrator.py 51-57: the tasks are created in the order of `accounts`
\* and asyncio.gather(*tasks, return_exceptions=True) hands their outcomes
\* back in the order of its arguments, not in the order they ended.
ResultsInCompletionOrder(finished) ==
    [k \in 1..Len(finished) |-> TaskOutcome(finished[k])]
ResultsOfGather(finished) ==
    [i \in 1..Len(fAccounts) |-> TaskOutcome(i)]

\* gather has every task's outcome; the chat front ends then close the
\* browser (telegram_bot.py 57, server/main.py 38), which may raise.
FrontGather ==
    /\ fPc = "running"
    /\ FrontTasks # {} => \A i \in FrontTasks : fTask[i] = "done"
    /\ fScheduler' = "returned"
    /\ fResults' = ResultsOfGather(fFinished)
    /\ \E env \in IF fTrigger.frontend \in ChatFrontEnds
                  THEN {"ok", "raises"} ELSE {"ok"} :
         IF env = "ok"
         THEN /\ fBrowser' = "closed"
              /\ fPc' = "report"
              /\ UNCHANGED fChannel
         ELSE /\ fPc' = "done"
              /\ fChannel' = fChannel \o OnRunError(fTrigger.frontend)
              /\ UNCHANGED fBrowser
    /\ UNCHANGED <<fTrigger, fAccounts, fTask, fOutcome, fFinished, fContexts>>
    /\ UNCHANGED fPrompt
    /\ UNCHANGED notFront

\* How the loop of telegram_bot.py 63-80 counts one entry of `results`: a
\* report dict by its success flag, anything else (an exception that gather
\* handed back) as a failure.
CountsAsSkipsExceptions(outcome) ==
    IF outcome = "exception" THEN "nothing"
    ELSE IF outcome = "success" THEN "success" ELSE "failure"
CountsAs(outcome) ==
    IF outcome # "exception"
    THEN IF outcome = "success" THEN "success" ELSE "failure"
    ELSE "failure"

\* The summary of telegram_bot.py 82-84 with its two counters.
Summary(reports) ==
    [kind |-> "summary", about |-> DOMAIN reports, running |-> StillRunning,
     success_count |->
        Cardinality({ i \in DOMAIN reports : CountsAs(reports[i]) = "success" }),
     failure_count |->
        Cardinality({ i \in DOMAIN reports : CountsAs(reports[i]) = "failure" })]

\* The report: one summary message on Telegram (telegram_bot.py 59-87), one
\* console line per result in the CLI (cli.py 73-83, 161-175), a log entry
\* only in the webhook task (server/main.py 39).
FrontReport ==
    /\ fPc = "report"
    /\ fChannel' =
          CASE fTrigger.frontend = "telegram" ->
                 Append(fChannel,
                        Summary([i \in DOMAIN fResults |-> fResults[i].outcome]))
            [] fTrigger.frontend = "webhook" -> fChannel
            [] OTHER ->
                 fChannel \o [i \in FrontTasks |-> Message("account_line", {i})]
    /\ fPc' = "done"
    /\ UNCHANGED <<fTrigger, fAccounts, fBrowser, fScheduler, fTask, fOutcome,
                   fFinished, fResults, fContexts>>
    /\ UNCHANGED fPrompt
    /\ UNCHANGED notFront

InitFront ==
    /\ fTrigger \in FrontTriggers
    /\ fPc = "received"
    /\ fAccounts = <<>>
    /\ fBrowser = "none"
    /\ fScheduler = "not_called"
    /\ fTask = <<>>
    /\ fOutcome = <<>>
    /\ fFinished = <<>>
    /\ fResults = <<>>
    /\ fPrompt = "not_asked"
    /\ fContexts = 0
    /\ fChannel = <<>>
    /\ SchedulerOff
    /\ WorkflowOff
    /\ RetryOff
    /\ SessionOff
    /\ AlertOff
    /\ HealthOff
    /\ CaptureOff

\* server/main.py 94-96: GET /health.  The server answers it whatever the
\* background task of a trigger is doing.
HealthResponseWhenIdle ==
    [status |-> IF fScheduler = "running" THEN "busy" ELSE "ok"]
HealthResponse == [status |-> "ok"]

HealthCheck ==
    /\ fTrigger.frontend = "webhook"
    /\ hResponse' = [status |-> HealthResponse.status, during |-> fPc,
                     scheduler |-> fScheduler]
    /\ UNCHANGED notHealth

NextFront ==
    \/ HealthCheck
    \/ FrontAccept
    \/ FrontResolve
    \/ FrontLaunch
    \/ \E i \in FrontTasks : FrontTaskStart(i)
    \/ \E i \in FrontTasks : FrontTaskRun(i)
    \/ \E i \in FrontTasks : FrontTaskNotify(i)
    \/ FrontGather
    \/ FrontReport

SpecFront == InitFront /\ [][NextFront]_vars

\* ================================================================ claims
OpenContexts == { i \in Tasks : context[i] = "open" }

IsReport(o) == o.kind = "report"
IsException(o) == o.kind = "exception"

\* C1: during orchestrate_accounts the number of browser contexts that are
\* open at the same moment never exceeds min(clamp(L, 1, 10), K).
C1_OpenContextsBounded ==
    Cardinality(OpenContexts) <= Min(Limit(max_concurrency), Len(accounts))

\* C2: when orchestrate_accounts returns for K accounts it returns exactly K
\* outcomes, the i-th being the one outcome task i ended with (a report for
\* account i, or the exception the task raised): none missing, none twice.
C2_OneOutcomePerAccount ==
    mainPc = "returned" =>
        /\ Len(results) = Len(accounts)
        /\ \A i \in Tasks :
             /\ results[i] = taskResult[i]
             /\ IsReport(results[i]) \/ IsException(results[i])
             /\ IsReport(results[i]) =>
                  results[i].value.account_name
                      \in {accounts[i].username, accounts[i].account_name}

C2_Witness ==
    /\ mainPc = "returned"
    /\ Len(accounts) >= 2
    /\ \E i, j \in Tasks :
         /\ IsException(results[i])
         /\ IsReport(results[j]) /\ ~results[j].value.success

\* C3: an error raised in one account's run does not cancel, fail or delay
\* a sibling: a finished task holds no slot of the semaphore (so a waiting
\* sibling gets it), a task ends with an exception only when a call of its
\* own raised, and orchestrate_accounts returns only once every task has run
\* to its end and has its own outcome.
C3_FailureIsolation ==
    /\ mainPc \in {"gather", "returned"} =>
         semaphore + Cardinality({ i \in Tasks : pc[i] \notin {"queued", "done"} })
             = Limit(max_concurrency)
    /\ \A i \in Tasks : IsException(taskResult[i]) => raisedAt[i] # {}
    /\ mainPc = "returned" =>
         \A i \in Tasks : pc[i] = "done" /\ results[i] = taskResult[i]

C3_Witness ==
    /\ mainPc = "returned"
    /\ Limit(max_concurrency) = 1
    /\ \E i, j \in Tasks :
         /\ IsException(results[i])
         /\ IsReport(results[j]) /\ results[j].value.success
         /\ raisedAt[j] = {}

\* C4: every browser context created for an account is closed by the time
\* the account's outcome is produced, on every exit path.
C4_ContextClosedAtOutcome ==
    \A i \in Tasks : pc[i] = "done" => context[i] # "open"

\* C5 (as claimed): every exception raised while an account is processed
\* becomes a failed report carrying the error text; the returned collection
\* holds no raw exception object.
C5_NoRawException ==
    mainPc = "returned" =>
        \A i \in Tasks :
            /\ IsReport(results[i])
            /\ raisedAt[i] # {} =>
                 /\ ~results[i].value.success
                 /\ "error" \in DOMAIN results[i].value

\* The calls whose exception no except clause of the account's run catches.
Uncaught(runner) ==
    {"new_context", "handler", "close_page", "close_context"}
        \cup (IF runner = "login" THEN {"new_page"} ELSE {})

\* C5 (amended): an exception of page creation, or of the failure
\* announcement, in run_submit_order_for_account becomes a failed report
\* carrying account_name and the error text, unless the announcement in the
\* except clause or a close() raises after it; an exception of context
\* creation, of the except clause, of page.close or context.close, or any
\* exception in run_login_for_account, is returned as a raw exception object
\* in the account's place.  orchestrate_accounts itself raises none of them.
C5_ExceptionsReportedOrReturned ==
    /\ mainPc # "raised"
    /\ mainPc = "returned" =>
        \A i \in Tasks :
            LET escaped == raisedAt[i] \cap Uncaught(trigger.runner) IN
            /\ IsException(results[i]) <=> escaped # {}
            /\ (IsReport(results[i]) /\ raisedAt[i] # {}) =>
                 /\ results[i].value.account_name = accounts[i].account_name
                 /\ ~results[i].value.success
                 /\ results[i].value.error
                      = (IF "notify" \in raisedAt[i] THEN "send_message"
                         ELSE "context.new_page")

C5_Witness ==
    /\ mainPc = "returned"
    /\ \E i, j \in Tasks :
         /\ IsReport(results[i]) /\ raisedAt[i] = {"new_page"}
         /\ IsException(results[j]) /\ raisedAt[j] = {"new_context"}

FailedSteps(r) == { k \in 1..Len(r.steps) : ~r.steps[k].success }

\* C6: in execute_submit_order no step function is invoked once a failed
\* StepResult is recorded (the failed step is the last recorded and the last
\* invoked); the report returned is successful iff every attempted step
\* succeeded; a successful real run attempted all five steps; a failed one
\* ends at its first failed step, which the error names.
C6_ShortCircuit ==
    (wInput.runner = "submit" /\ wPc \notin {"off", "start"}) =>
        /\ \A k \in FailedSteps(wReport) :
             /\ k = Len(wReport.steps)
             /\ wCalls[Len(wCalls)] = wReport.steps[k].step
             /\ wPc # "step"
        /\ wPc \in {"finally", "padding", "returned"} =>
             /\ wReport.success <=> FailedSteps(wReport) = {}
             /\ wReport.success <=> "error" \notin DOMAIN wReport
             /\ (~wInput.dry_run /\ wReport.success) =>
                  /\ Len(wReport.steps) = Len(StepNames)
                  /\ \A k \in 1..Len(StepNames) :
                       wReport.steps[k].step = StepNames[k]
             /\ (~wInput.dry_run /\ ~wReport.success) =>
                  LET n == Len(wReport.steps) IN
                  /\ n >= 1
                  /\ FailedSteps(wReport) = {n}
                  /\ wReport.error[2] = StepNames[n]
                  /\ wReport.steps[n].step = StepNames[n]

C6_Witness ==
    /\ wInput.runner = "submit" /\ ~wInput.dry_run
    /\ wPc = "returned"
    /\ ~wReport.success
    /\ Len(wReport.steps) = 3
    /\ Len(wCalls) = 3

\* C7: in a real run a step is recorded as failed only after its full retry
\* budget of invocations, each of which failed.
C7_FailureOnlyAfterBudget ==
    (wPc \notin {"off", "start"} /\ ~wInput.dry_run) =>
        (FailedSteps(wReport) # {} => wAttempts = StepMaxAttempts)

IsCaughtRaise(o) ==
    o.kind = "raise" /\ IsCaught(o.exc.type, rArgs.catch_exceptions)

\* C8: async_retry with max_attempts A >= 1.  Never more than A invocations;
\* when the wrapper ends after n of them, the first n-1 raised caught
\* exceptions, the wrapper hands on what the n-th did (its value, or its
\* exception), a caught exception is handed on only from the A-th, and the
\* delay was slept n-1 times: between attempts, never after the last.
C8_RetryContract ==
    (rPc # "off" /\ rArgs.max_attempts >= 1) =>
        /\ Len(rHistory) <= rArgs.max_attempts
        /\ rPc = "done" =>
             LET n == Len(rHistory) IN
             /\ n >= 1
             /\ \A k \in 1..(n - 1) : IsCaughtRaise(rHistory[k])
             /\ rResult = rHistory[n]
             /\ IsCaughtRaise(rHistory[n]) => n = rArgs.max_attempts
             /\ rSleeps = n - 1

C8_Witness ==
    /\ rPc = "done"
    /\ rArgs.max_attempts = 3
    /\ Len(rHistory) = 3
    /\ rResult.kind = "return"
    /\ rSleeps = 2

\* C9: with dry_run every outcome orchestrate_accounts returns for
\* run_submit_order_for_account is a successful report with no step.
C9_DryRunAlwaysSucceeds ==
    (mainPc = "returned" /\ trigger.dry_run) =>
        \A i \in Tasks :
            /\ IsReport(results[i])
            /\ results[i].value.success
            /\ "steps" \in DOMAIN results[i].value
            /\ results[i].value.steps = <<>>

\* C10: with dry_run no browser context and no page is created for an
\* account.
C10_DryRunTouchesNothing ==
    (mainPc # "off" /\ trigger.dry_run) =>
        \A i \in Tasks : context[i] = "none" /\ page[i] = "none"

\* ---------------------------------------------------- the session store
IsCached(result) == result.step = "login" /\ "cached" \in DOMAIN result

Before(calls, a, b) ==
    \E i, j \in DOMAIN calls : i < j /\ calls[i] = a /\ calls[j] = b

\* C11: the login step returns a success with the cached flag only if the
\* session file existed at the start of the step and the validation
\* navigation did not land on the login surface; after a landing on the
\* login surface it never returns a cached success.
C11_CachedOnlyIfValidated ==
    \A w \in Workflows :
        /\ IsCached(lResult[w]) =>
             /\ lResult[w].success
             /\ lExisted[w]
             /\ lLanded[w] = DeliveryUrl
        /\ OnLoginSurface(lLanded[w]) => ~IsCached(lResult[w])

C11_Witness ==
    \E w \in Workflows :
        /\ lPc[w] = "returned"
        /\ IsCached(lResult[w])
        /\ Count(lCalls[w], "login.wait_for_tab") = 1

\* C12: when the session file exists and the validation navigation lands on
\* the login surface, the step deletes the file exactly once (one unlink)
\* and then takes the interactive login in the same step: it opens the login
\* page and enters the credentials there (the step fails if that page does
\* not load), and it never answers from the cache.  When no session file
\* exists at the start of the step, the step attempts no deletion.
C12_StaleSessionDeletedOnce ==
    \A w \in Workflows :
        LET c == lCalls[w] IN
        /\ (lExisted[w] /\ OnLoginSurface(lLanded[w])) =>
             /\ lPc[w] \in {"fresh", "submitted", "saving", "returned"} =>
                  Count(c, "login.unlink") = 1
             /\ lPc[w] \in {"submitted", "saving", "returned"} =>
                  Before(c, "login.unlink", "login.goto_login")
             /\ lPc[w] = "returned" =>
                  /\ ~IsCached(lResult[w])
                  /\ \/ Before(c, "login.goto_login", "login.fill")
                     \/ lResult[w] = LoginFailure("page.goto")
        /\ ~lExisted[w] => Count(c, "login.unlink") = 0

C12_Witness ==
    \E w \in Workflows :
        /\ lPc[w] = "returned"
        /\ lExisted[w] /\ OnLoginSurface(lLanded[w])
        /\ Count(lCalls[w], "login.unlink") = 1
        /\ Count(lCalls[w], "login.fill") = 1
        /\ lResult[w] = LoginSuccess

\* C13 (as claimed): the session file is read and written only by the login
\* step, and written only after an interactive login has left the login
\* surface, never where the step returns a cached success or a failure.
C13_OnlyLoginStepTouchesFile ==
    \A w \in Workflows :
        LET c == lCalls[w] IN
        /\ Count(c, "new_context.read") = 0
        /\ Count(c, "login.storage_state") > 0 =>
             Before(c, "login.left_login", "login.storage_state")

\* C13 (amended): the session file is read by PlaywrightAdapter.new_context
\* when the account's browser context is created, before the login step
\* starts; the login step tests that it exists, deletes it when it is stale
\* and is the only one to write it.  It is written only after the
\* credentials were entered in that step and the page has left the login
\* surface, and the step that wrote it returns a success without the cached
\* flag: never a cached success, never a failure.
C13_SessionFileAccess ==
    \A w \in Workflows :
        LET c == lCalls[w] IN
        /\ \A k \in DOMAIN c :
             c[k] = "new_context.read" =>
                 \A j \in 1..k : c[j] \in {"new_context.exists", "new_context.read"}
        /\ Count(c, "login.storage_state") <= 1
        /\ Count(c, "login.storage_state") = 1 =>
             /\ Before(c, "login.fill", "login.left_login")
             /\ Before(c, "login.left_login", "login.storage_state")
             /\ lPc[w] = "returned"
             /\ lResult[w] = LoginSuccess
        /\ (lPc[w] = "returned" /\ lResult[w] # LoginSuccess) =>
             Count(c, "login.storage_state") = 0

C13_Witness ==
    \E w \in Workflows :
        /\ lPc[w] = "returned"
        /\ Count(lCalls[w], "new_context.read") = 1
        /\ Count(lCalls[w], "login.storage_state") = 1
        /\ sessionFile[PathOf(w)] = "present"

\* A workflow in the middle of a read, a deletion or a write of its file.
Operating(w) == HasPath(w) /\ lPc[w] \in {"reading", "unlink", "saving"}

\* C14: at most one running workflow at a time is reading, writing or
\* deleting the session file of a given account_name.
C14_OneWorkflowPerSessionFile ==
    \A v, w \in Workflows :
        (v # w /\ Operating(v) /\ Operating(w)) => PathOf(v) # PathOf(w)

\* ------------------------------------------------ the alert classifier
InFollowedFamily(msg) == AnyPhraseIn(FollowedPhrases, Lower(msg))
InErrorFamily(msg) == AnyPhraseIn(ErrorPhrases, Lower(msg))

C16_ErrorFamilyNeverSuccess ==
    (aPc = "returned" /\ aMsg # <<>> /\ InErrorFamily(aMsg)) =>
        ~aResult.success

\* ------------------------------------------------------- the front ends
NoAccountResolvable ==
    /\ fTrigger.file.state = "parsed"
    /\ fTrigger.file.accounts = <<>>
    /\ ~(fTrigger.optcoin_username # <<>> /\ fTrigger.optcoin_password # "")

\* C17: when no account can be resolved (no account in the file, no
\* credential pair in the environment) every front end turns the trigger
\* away before orchestrate_accounts is called and before a browser or an
\* automation context is created.
C17_NoAccountsRejectedEarly ==
    (fPc # "off" /\ NoAccountResolvable) =>
        /\ fPc \in {"received", "aborted", "task", "rejected"}
        /\ fScheduler = "not_called"
        /\ fBrowser = "none"
        /\ fContexts = 0
        /\ fTask = <<>>

C17_Witness ==
    /\ NoAccountResolvable
    /\ fPc = "rejected"
    /\ fTrigger.frontend = "telegram"
    /\ \E k \in DOMAIN fChannel : fChannel[k].kind = "no_accounts"

AccountResultKinds == {"account_failed", "account_critical", "summary"}

\* C18: on a chat front end no message about an account's result is
\* written to the reply channel while tasks of other accounts of the
\* trigger are still running; the results go out in one aggregation step
\* after every task has completed.
C18_RepliesOnlyAfterAllTasks ==
    fTrigger.frontend \in ChatFrontEnds =>
        \A k \in DOMAIN fChannel :
            fChannel[k].kind \in AccountResultKinds =>
                fChannel[k].running \ fChannel[k].about = {}

\* C19: when the handling of a trigger accepted by a chat front end has
\* ended, the user has been sent a definite outcome: the summary naming
\* every account, or the failure of the trigger (no account, run raised).
C19_OutcomeRelayed ==
    (fTrigger.frontend \in ChatFrontEnds
        /\ fPc \in {"done", "rejected", "crashed"}) =>
        \E k \in DOMAIN fChannel :
            \/ fChannel[k].kind \in {"no_accounts", "critical"}
            \/ fChannel[k].kind = "summary" /\ fChannel[k].about = FrontTasks

\* ------------------------------------------------------ the concurrency limit
\* The slots of the semaphore, free and taken: the limit it was made with.
EffectiveLimit ==
    semaphore + Cardinality({ i \in Tasks : pc[i] \notin {"queued", "done"} })

\* C20: the concurrency limit orchestrate_accounts uses is
\* max(1, min(L, 10)) for every configured L: 1 for zero, for a negative
\* value and for a missing one, 10 for a value above 10; it lies in 1..10.
C20_LimitClamped ==
    mainPc \in {"gather", "returned"} =>
        /\ EffectiveLimit \in 1..10
        /\ EffectiveLimit =
             (IF ~max_concurrency.given THEN 1
              ELSE IF max_concurrency.value < 1 THEN 1
              ELSE IF max_concurrency.value > 10 THEN 10
              ELSE max_concurrency.value)

C20_Witness ==
    /\ mainPc = "returned"
    /\ max_concurrency = Configured(-1)
    /\ EffectiveLimit = 1
    /\ \A i \in Tasks : pc[i] = "done"

\* C21: GET /health answers with the ok status whatever the trigger's
\* background task is doing (not yet started, accounts running, rejected,
\* crashed, finished), and answering it changes nothing of the trigger, of
\* the scheduler, of the session store or of the accounts.
C21_HealthProbe ==
    /\ [](hResponse.status \in {"none", "ok"})
    /\ [][hResponse' # hResponse =>
            UNCHANGED <<frontVars, schedVars, sessVars>>]_vars

\* A probe answered ok while the accounts of a trigger were running.
C21_Witness ==
    /\ hResponse.status = "ok"
    /\ hResponse.scheduler = "running"
    /\ hResponse.during = "running"
    /\ \E i \in FrontTasks : fTask[i] = "running"

\* The steps whose invocation has started and has not come back.
StepsInFlight == IF wPc = "awaiting" THEN {wCalls[Len(wCalls)]} ELSE {}

\* C22: in a real order submission the steps recorded in the report are a
\* prefix of login, navigate_to_delivery, click_invited_me,
\* enter_order_and_recognize, confirm_order; a step is invoked only when the
\* results of all the steps before it are in the report, so the invocations
\* made are the recorded steps plus at most the one in flight, which is the
\* successor of the last recorded step.
C22_StepsInOrder ==
    (wInput.runner = "submit" /\ ~wInput.dry_run /\ wPc \notin {"off", "start"}) =>
        LET order == <<"login", "navigate_to_delivery", "click_invited_me",
                       "enter_order_and_recognize", "confirm_order">>
            n == Len(wReport.steps)
        IN
        /\ n <= Len(order)
        /\ \A k \in 1..n : wReport.steps[k].step = order[k]
        /\ Cardinality(StepsInFlight) <= 1
        /\ Len(wCalls) = n + Cardinality(StepsInFlight)
        /\ \A k \in 1..n : wCalls[k] = order[k]
        /\ \A name \in StepsInFlight : n < Len(order) /\ name = order[n + 1]
        /\ wPc \in {"finally", "padding", "returned"} => StepsInFlight = {}

\* The third step is in flight with the first two recorded.
C22_Witness ==
    /\ wInput.runner = "submit" /\ ~wInput.dry_run
    /\ StepsInFlight = {"click_invited_me"}
    /\ Len(wReport.steps) = 2
    /\ wReport.steps[2].step = "navigate_to_delivery"

\* The login step of w is over, its session file existed and the validation
\* navigation did not end on the login surface.
ValidatedAway(w) ==
    lPc[w] = "returned" /\ lExisted[w] /\ lLanded[w] = DeliveryUrl

\* C23 (as claimed): when the session file exists and the validation
\* navigation does not end on the login surface, the login step returns a
\* success with the cached flag, enters no credentials and neither writes
\* nor deletes the session file.
C23_CachedWheneverNotBounced ==
    \A w \in Workflows :
        ValidatedAway(w) =>
            /\ IsCached(lResult[w]) /\ lResult[w].success
            /\ Count(lCalls[w], "login.fill") = 0
            /\ Count(lCalls[w], "login.storage_state") = 0
            /\ Count(lCalls[w], "login.unlink") = 0

\* C23 (amended): when the session file exists and the validation
\* navigation does not end on the login surface, the step looks for the
\* delivery tab.  A cached success is returned with no credential entry, no
\* write and no deletion of the file; the step that does not return it has
\* either deleted the file once (the tab did not show in time) and gone to
\* the login page, or failed on the wait for the tab without touching the
\* file or the credentials.
C23_CachedAfterTabSeen ==
    \A w \in Workflows :
        ValidatedAway(w) =>
            LET c == lCalls[w] IN
            /\ Count(c, "login.wait_for_tab") = 1
            /\ IsCached(lResult[w]) =>
                  /\ lResult[w].success
                  /\ Count(c, "login.fill") = 0
                  /\ Count(c, "login.goto_login") = 0
                  /\ Count(c, "login.storage_state") = 0
                  /\ Count(c, "login.unlink") = 0
            /\ ~IsCached(lResult[w]) =>
                  \/ /\ Count(c, "login.unlink") = 1
                     /\ Before(c, "login.wait_for_tab", "login.unlink")
                     /\ Before(c, "login.unlink", "login.goto_login")
                  \/ /\ lResult[w] = LoginFailure("locator.wait_for")
                     /\ Count(c, "login.unlink") = 0
                     /\ Count(c, "login.fill") = 0
                     /\ Count(c, "login.storage_state") = 0

\* The navigation stayed on the delivery page, the tab did not show, the
\* file was deleted and the credentials were entered.
C23_Witness ==
    \E w \in Workflows :
        /\ ValidatedAway(w)
        /\ ~IsCached(lResult[w])
        /\ Count(lCalls[w], "login.unlink") = 1
        /\ Count(lCalls[w], "login.fill") = 1
        /\ lResult[w] = LoginSuccess

\* The sources _capture_alert_message has consulted so far, in order.
SourcesConsulted ==
    SelectSeq(cCalls, LAMBDA c : c \in {"dialog", "role_alert", "error_locator"})

\* What each source has to offer on this page.
DialogText ==
    IF cEnv.dialog.state = "shown" THEN cEnv.dialog.message ELSE <<>>
VisibleAlertTexts ==
    IF cEnv.alerts.state = "found"
    THEN SelectSeq([k \in DOMAIN cEnv.alerts.elements |->
                      IF cEnv.alerts.elements[k].visible
                      THEN cEnv.alerts.elements[k].text ELSE <<>>],
                   LAMBDA t : t \notin {<<>>, <<" ">>})
    ELSE <<>>
LocatorText ==
    IF cEnv.error.state = "visible" /\ cEnv.error.text # <<" ">>
    THEN cEnv.error.text ELSE <<>>

\* C24: alert capture consults the dialog first, then the elements with the
\* alert role, then the error-message locator, and stops at the first that
\* yields a non-empty text, which is what it returns; with no text from any
\* of the three it returns no alert.  (An error of the dialog wait other
\* than its timeout ends the capture there, with no other source consulted.)
C24_CapturePriority ==
    cPc # "off" =>
        /\ \E n \in 0..3 :
              SourcesConsulted = SubSeq(<<"dialog", "role_alert", "error_locator">>, 1, n)
        /\ cPc \in {"captured", "button", "settle"} =>
              CASE DialogText # <<>> ->
                     /\ cAlert = Captured(DialogText)
                     /\ SourcesConsulted = <<"dialog">>
                [] DialogText = <<>> /\ VisibleAlertTexts # <<>> ->
                     /\ cAlert = Captured(VisibleAlertTexts[1])
                     /\ SourcesConsulted = <<"dialog", "role_alert">>
                [] DialogText = <<>> /\ VisibleAlertTexts = <<>>
                     /\ LocatorText # <<>> ->
                     /\ cAlert = Captured(LocatorText)
                     /\ SourcesConsulted = <<"dialog", "role_alert", "error_locator">>
                [] OTHER ->
                     /\ cAlert = NoAlert
                     /\ SourcesConsulted = <<"dialog", "role_alert", "error_locator">>
        /\ (cPc = "returned" /\ cEnv.dialog.state = "raises") =>
              /\ Len(SourcesConsulted) <= 1
              /\ cAlert = NoAlert

\* No dialog came; the first alert element is blank and the second has the
\* text that is returned, with the error locator showing a text too.
C24_Witness ==
    /\ cPc = "captured"
    /\ cEnv.dialog.state = "timeout"
    /\ cEnv.alerts.state = "found"
    /\ Len(cEnv.alerts.elements) = 2
    /\ cEnv.alerts.elements[1] = [visible |-> TRUE, text |-> <<" ">>]
    /\ cEnv.error.state = "visible" /\ cEnv.error.text = <<"Error:", "xyz">>
    /\ cAlert = Captured(<<"Invalid", "parameter">>)
    /\ SourcesConsulted = <<"dialog", "role_alert">>

Made(call) == \E k \in DOMAIN cCalls : cCalls[k] = call

\* The step is over and its capture went through the three sources and
\* found no alert.
ReturnedWithoutAlert(step) ==
    /\ cStep = step /\ cPc = "returned"
    /\ Len(SourcesConsulted) = 3 /\ cAlert = NoAlert

\* C25: with no alert captured the step does not fail for that.  The
\* recognize step then waits for the confirm button: it succeeds iff the
\* button becomes visible; when the wait times out it fails with the
\* session-expired error if the page is on the login surface and with the
\* button-did-not-appear error otherwise.  The confirm step waits for the
\* settle delay and returns a plain success once the delay has elapsed.
C25_NoAlertFallback ==
    /\ ReturnedWithoutAlert("recognize") =>
          /\ Made("confirm_button.visible") \/ Made("confirm_button.timeout")
                \/ Made("confirm_button.error")
          /\ cResult.success <=> Made("confirm_button.visible")
          /\ Made("confirm_button.visible") =>
                cResult = [step |-> "enter_order_and_recognize",
                           success |-> TRUE, order_number |-> "1001"]
          /\ (Made("confirm_button.timeout") /\ Made("url.login")) =>
                cResult.error =
                    <<"Redirige vers la page de connexion apres la tentative">>
          /\ (Made("confirm_button.timeout") /\ Made("url.delivery")) =>
                cResult.error = <<"Le bouton de confirmation n'est pas apparu">>
    /\ ReturnedWithoutAlert("confirm") =>
          /\ Made("settle.elapsed") \/ Made("settle.raises")
          /\ cResult.success <=> Made("settle.elapsed")
          /\ Made("settle.elapsed") =>
                cResult = [step |-> "confirm_order", success |-> TRUE]

\* No alert, and the wait for the confirm button timed out on the login
\* surface.
C25_Witness ==
    /\ ReturnedWithoutAlert("recognize")
    /\ Made("confirm_button.timeout") /\ Made("url.login")
    /\ ~cResult.success

\* get_accounts_to_process has returned.
Resolved ==
    /\ fTrigger.file.state = "parsed"
    /\ fPc \notin {"off", "received", "aborted", "task"}

\* C26: get_accounts_to_process returns the list of the accounts file as it
\* is when the list is not empty; else one account, named default_account
\* with the environment's username, when the environment has both a
\* username and a password; else, one of the two missing, the empty list.
C26_AccountResolutionOrder ==
    Resolved =>
        LET listed == fTrigger.file.accounts
            username == fTrigger.optcoin_username
            password == fTrigger.optcoin_password
        IN
        /\ listed # <<>> => fAccounts = listed
        /\ (listed = <<>> /\ username # <<>> /\ password # "") =>
              /\ Len(fAccounts) = 1
              /\ fAccounts[1].account_name = <<"default_account">>
              /\ fAccounts[1].username = username
        /\ (listed = <<>> /\ (username = <<>> \/ password = "")) =>
              fAccounts = <<>>

\* The file lists no account and the environment has a username without a
\* password: nothing is resolved.
C26_Witness ==
    /\ Resolved
    /\ fTrigger.file.accounts = <<>>
    /\ fTrigger.optcoin_username # <<>> /\ fTrigger.optcoin_password = ""
    /\ fAccounts = <<>>
    /\ fPc = "rejected"

\* C27: the summary the Telegram front end sends counts every outcome the
\* scheduler returned exactly once: a successful report as a success, a
\* failed report or an exception as a failure; the two counters add up to
\* the number of accounts of the trigger.
C27_EveryOutcomeCounted ==
    \A k \in DOMAIN fChannel :
        fChannel[k].kind = "summary" =>
            LET m == fChannel[k]
                succeeded == { i \in FrontTasks : fOutcome[i] = "success" }
            IN
            /\ m.success_count = Cardinality(succeeded)
            /\ m.failure_count = Cardinality(FrontTasks \ succeeded)
            /\ m.success_count + m.failure_count = Len(fAccounts)

\* A summary over a success and an exception that came back from gather.
C27_Witness ==
    /\ fTrigger.frontend = "telegram"
    /\ fPc = "done"
    /\ \E i, j \in FrontTasks :
          fOutcome[i] = "success" /\ fOutcome[j] = "exception"
    /\ \E k \in DOMAIN fChannel :
          /\ fChannel[k].kind = "summary"
          /\ fChannel[k].success_count = 1
          /\ fChannel[k].failure_count = 1

\* The report a run with these inputs gives with the floor disabled, for
\* some behaviour of the browser at its steps.
ReportWithoutFloor(r) ==
    \E envs \in [1..Len(StepNames) -> StepEnvs] :
        r = ExecuteWorkflow(wInput.runner, Account(1), wInput.order_number,
                            wInput.dry_run, envs)

\* C28: the padding sleep of the minimum-run floor is made only with the
\* floor enabled and only once the workflow is over: no step is in flight,
\* every step invoked has its result in the report, and the report has its
\* success or its error.  The sleep changes nothing of the report, and the
\* report returned is one the same run gives with the floor disabled.
C28_PaddingAfterLastStep ==
    /\ [](wPc = "padding" =>
            /\ wInput.enforce_min_run
            /\ StepsInFlight = {}
            /\ Len(wCalls) = Len(wReport.steps)
            /\ wReport.success \/ "error" \in DOMAIN wReport)
    /\ [](wPc \in {"padding", "returned"} => ReportWithoutFloor(wReport))
    /\ [][(wPc = "finally" \/ wPc = "padding") =>
            (wReport' = wReport /\ wCalls' = wCalls)]_vars

\* The floor pads a run that failed at its second step.
C28_Witness ==
    /\ wPc = "padding"
    /\ wInput.enforce_min_run /\ ~wInput.dry_run
    /\ ~wReport.success
    /\ Len(wReport.steps) = 2

\* C29: the retry budget of the login step is strictly smaller than the
\* retry budget of the enter_order_and_recognize step.
C29_LoginBudgetSmaller ==
    (wPc # "off" /\ wInput.runner = "submit" /\ ~wInput.dry_run) =>
        MaxAttemptsOf("login") < MaxAttemptsOf("enter_order_and_recognize")

\* C30: a context gets at most one page: no page exists for the account
\* when new_page is about to be called, and new_page is called once.  The
\* page opened for an account is closed when the account's run is over,
\* whichever way it ended, and it is closed while the context is still
\* open: when the context is about to be closed, and once it is closed, the
\* page is not open.
C30_PageClosedBeforeContext ==
    \A i \in Tasks :
        /\ pc[i] \in {"uncreated", "queued", "new_context", "new_page"} =>
              page[i] = "none"
        /\ page[i] = "open" =>
              /\ context[i] = "open"
              /\ pc[i] \in {"workflow", "notify", "handler", "close_page"}
        /\ pc[i] = "close_context" =>
              /\ page[i] # "open"
              /\ page[i] = "closed" => context[i] = "open"
        /\ pc[i] = "done" => page[i] # "open"
        /\ context[i] = "closed" => page[i] # "open"

\* An account whose notification raised in the except clause: its page was
\* closed, then its context, and the task ended with an exception.
C30_Witness ==
    \E i \in Tasks :
        /\ pc[i] = "done"
        /\ page[i] = "closed" /\ context[i] = "closed"
        /\ "handler" \in raisedAt[i]

\* The tasks inside `async with semaphore`.
Holding ==
    { i \in Tasks : pc[i] \in {"new_context", "new_page", "workflow", "notify",
                                "handler", "close_page", "close_context"} }

\* How far a worker is from its end, in awaits.
PcRank(p) ==
    CASE p = "uncreated" -> 10 [] p = "queued" -> 9 [] p = "new_context" -> 8
      [] p = "new_page" -> 7 [] p = "workflow" -> 6 [] p = "notify" -> 5
      [] p = "handler" -> 4 [] p = "close_page" -> 3 [] p = "close_context" -> 2
      [] OTHER -> 1

RECURSIVE SumRank(_)
SumRank(k) == IF k = 0 THEN 0 ELSE PcRank(pc[k]) + SumRank(k - 1)

Rank ==
    SumRank(Len(accounts)) + (IF mainPc \in {"returned", "raised"} THEN 0 ELSE 1)

\* C31: orchestrate_accounts ends for every account list and every limit.
\* The slots taken and the slots free always add up to the limit, whatever
\* raised in a worker (context creation, the run, page.close, context.close);
\* while a task is queued a slot is free or a task holding one is running;
\* the call has returned only with every task done; and every step of the
\* system brings it closer to its end, so no run goes on for ever and none
\* stops before the end.
C31_SlotsReleasedAndTerminates ==
    /\ [](mainPc # "idle" =>
            /\ semaphore >= 0
            /\ semaphore + Cardinality(Holding) = Limit(max_concurrency))
    /\ [](mainPc = "gather" =>
            \/ \A i \in Tasks : pc[i] = "done"
            \/ Holding # {}
            \/ semaphore > 0 /\ \E i \in Tasks : pc[i] = "queued")
    /\ [](mainPc \in {"returned", "raised"} =>
            \A i \in Tasks : pc[i] = "done")
    /\ [][Rank' < Rank]_vars

\* Two accounts on one slot: the first ended with the exception of its
\* context.close(), the second then took the slot, and the call returned.
C31_Witness ==
    /\ mainPc = "returned"
    /\ Len(accounts) = 2
    /\ Limit(max_concurrency) = 1
    /\ semaphore = 1
    /\ "close_context" \in raisedAt[1]
    /\ "new_context" \in raisedAt[2]
\* C32: the collection orchestrate_accounts returns is in input order: its
\* i-th entry is the outcome of the task of the i-th input account, whatever
\* order the tasks ended in.
C32_ResultsInInputOrder ==
    fScheduler = "returned" =>
        /\ Len(fResults) = Len(fAccounts)
        /\ \A i \in 1..Len(fAccounts) :
              /\ fResults[i].account = fAccounts[i]
              /\ fResults[i].outcome = fOutcome[i]

\* The second account's task ended first, with another outcome than the
\* first account's, and the collection was returned.
C32_Witness ==
    /\ fScheduler = "returned"
    /\ fFinished = <<2, 1>>
    /\ fOutcome[1] # fOutcome[2]
    /\ fResults[1].outcome = fOutcome[1]

\* C33: every report returned for an account carries that input account's
\* account_name in its account_name field, whether the workflow built the
\* report or the except clause of the account's runner did.
C33_ReportCarriesAccountName ==
    mainPc = "returned" =>
        \A i \in Tasks :
            IsReport(results[i]) =>
                results[i].value.account_name = accounts[i].account_name

\* C34: in the report execute_submit_order or execute_login returns, the
\* error field is present exactly when success is false: no report has
\* success true together with an error, none has success false with no error.
C34_ErrorIffFailure ==
    wPc \in {"finally", "padding", "returned"} =>
        /\ wReport.success \in BOOLEAN
        /\ ("error" \in DOMAIN wReport) <=> ~wReport.success

\* execute_login returned a failed report, with its error.
C34_Witness ==
    /\ wInput.runner = "login"
    /\ wPc = "returned"
    /\ ~wReport.success
    /\ "error" \in DOMAIN wReport
    /\ Len(wReport.steps) = 1

\* C35: an alert text gets the same verdict in both steps: whenever the
\* recognize step has classified a captured alert, the classifier of the
\* confirm step gives the same success or failure for that text.
C35_SameVerdictInBothSteps ==
    (aPc = "returned" /\ aMsg # <<>> /\ "alert_message" \in DOMAIN aResult) =>
        aResult.success = ConfirmAlert(aResult.alert_message).success

\* C36: a submit-order command of the CLI that is not a dry run gets past
\* its start (to account loading, the browser and the scheduler) only when
\* the user confirmed the prompt or --yes was given; once the user declined,
\* the command is aborted: no account loaded, no browser, no task, no
\* automation context.  The prompt is put only when neither option is set.
C36_ConfirmedBeforeRun ==
    fTrigger.frontend = "cli_submit" =>
        /\ (~fTrigger.dry_run /\ fPc \notin {"received", "aborted"}) =>
              (fTrigger.yes \/ fPrompt = "confirmed")
        /\ fPrompt = "declined" =>
              /\ fPc = "aborted"
              /\ fAccounts = <<>> /\ fBrowser = "none"
              /\ fScheduler = "not_called" /\ fTask = <<>>
              /\ fContexts = 0 /\ fResults = <<>>
        /\ fPrompt # "not_asked" => (~fTrigger.dry_run /\ ~fTrigger.yes)
        /\ fPc = "aborted" => fPrompt = "declined"

\* A real run without --yes whose prompt was confirmed and whose accounts
\* were then scheduled.
C36_Witness ==
    /\ fTrigger.frontend = "cli_submit"
    /\ ~fTrigger.dry_run /\ ~fTrigger.yes
    /\ fPrompt = "confirmed"
    /\ fScheduler = "returned"
    /\ fContexts = 2

====
